---- MODULE Spec2Model ----
(***************************************************************************)
(* A model of the figma-to-claude pipeline: the orchestrator               *)
(* (src/src/pipeline.py), the model client with its retry loop and JSON    *)
(* extraction (src/src/claude_client.py), the four stage agents            *)
(* (src/src/agents/*.py) and the design-data fetch                         *)
(* (src/src/figma_client.py).                                              *)
(*                                                                         *)
(* Conventions.  A text is a sequence of lexical tokens.  A parsed JSON    *)
(* value is a record [kind, members, num, str].  Progress values are kept in    *)
(* tenths (0.2 is 2, 1.0 is 10, the error sentinel -1 is -10).  Sleep      *)
(* durations are in seconds.  Python's None is the string None.            *)
(***************************************************************************)
EXTENDS Integers, Sequences, FiniteSets, TLC

(***************************************************************************)
(* Program constants.                                                      *)
(***************************************************************************)
_MAX_RETRIES == 3

_BACKOFF_BASE == 1

None == "None"

(***************************************************************************)
(* JSON values, as json.loads builds them.                                 *)
(***************************************************************************)
Obj(m) == [kind |-> "object", members |-> m, num |-> 0, str |-> ""]

Num(n) == [kind |-> "number", members |-> {}, num |-> n, str |-> ""]

Str(s) == [kind |-> "string", members |-> {}, num |-> 0, str |-> s]

Null == [kind |-> "null", members |-> {}, num |-> 0, str |-> ""]

EmptyDict == Obj({})

\* bool(v) of Python: an empty dict, 0, the empty string and None are falsy.
Truthy(v) ==
  CASE v.kind = "object" -> v.members # {}
    [] v.kind = "number" -> v.num # 0
    [] v.kind = "string" -> v.str # ""
    [] OTHER -> FALSE

\* Only a dict has .get; on any other value the attribute lookup raises.
HasGet(v) == v.kind = "object"

(***************************************************************************)
(* Tokens of a model response.                                             *)
(***************************************************************************)
\* The Markdown code-fence marker (three backquotes).
FENCE == "FENCE"

Whitespace == {" ", "\n"}

\* A key token stands for a quoted member name with its colon.
KeyTokens == {"a:", "files:"}

NumberTokens == {"0", "1", "2"}

KeyOf(tok) == IF tok = "a:" THEN "a" ELSE "files"

NumOf(tok) == CASE tok = "0" -> 0 [] tok = "1" -> 1 [] OTHER -> 2

\* The double quote that opens and closes a JSON string literal.
DQ == "DQ"

(***************************************************************************)
(* json.loads on a token sequence: whitespace around values and            *)
(* punctuation is insignificant, a value is a number, a string or an       *)
(* object, a repeated key keeps its last value.  Inside a string literal   *)
(* every token up to the closing quote is content, except a raw newline,   *)
(* which json.loads rejects as a control character, and a key token, whose *)
(* own quote closes the literal in front of text no value may be followed  *)
(* by.                                                                     *)
(***************************************************************************)
RECURSIVE SkipWs(_)
SkipWs(t) ==
  IF t # <<>> /\ Head(t) \in Whitespace THEN SkipWs(Tail(t)) ELSE t

ParseFail == [ok |-> FALSE, val |-> Num(0), rest |-> <<>>]

RECURSIVE ParseString(_, _)
ParseString(t, acc) ==
  IF t = <<>> THEN ParseFail
  ELSE IF Head(t) = DQ THEN [ok |-> TRUE, val |-> Str(acc), rest |-> Tail(t)]
  ELSE IF Head(t) = "\n" \/ Head(t) \in KeyTokens THEN ParseFail
  ELSE ParseString(Tail(t), acc \o Head(t))

RECURSIVE ParseValue(_)
RECURSIVE ParseMembers(_, _, _)
ParseValue(t) ==
  LET u == SkipWs(t)
  IN  IF u = <<>> THEN ParseFail
      ELSE IF Head(u) \in NumberTokens
        THEN [ok |-> TRUE, val |-> Num(NumOf(Head(u))), rest |-> Tail(u)]
      ELSE IF Head(u) = DQ THEN ParseString(Tail(u), "")
      ELSE IF Head(u) = "{" THEN ParseMembers(Tail(u), {}, TRUE)
      ELSE ParseFail

ParseMembers(t, acc, first) ==
  LET u == SkipWs(t)
  IN  IF u = <<>> THEN ParseFail
      ELSE IF Head(u) = "}" /\ first
        THEN [ok |-> TRUE, val |-> Obj(acc), rest |-> Tail(u)]
      ELSE IF Head(u) \notin KeyTokens THEN ParseFail
      ELSE
        LET k == KeyOf(Head(u))
            v == ParseValue(Tail(u))
            acc2 == {p \in acc : p[1] # k} \cup {<<k, v.val>>}
            r == SkipWs(v.rest)
        IN  IF ~v.ok \/ r = <<>> THEN ParseFail
            ELSE IF Head(r) = "," THEN ParseMembers(Tail(r), acc2, FALSE)
            ELSE IF Head(r) = "}"
              THEN [ok |-> TRUE, val |-> Obj(acc2), rest |-> Tail(r)]
            ELSE ParseFail

json_loads(t) ==
  LET r == ParseValue(t)
  IN  IF r.ok /\ SkipWs(r.rest) = <<>> THEN [ok |-> TRUE, val |-> r.val]
      ELSE [ok |-> FALSE, val |-> Num(0)]

(***************************************************************************)
(* ClaudeClient._extract_json.                                             *)
(***************************************************************************)
RECURSIVE LStrip(_)
LStrip(t) ==
  IF t # <<>> /\ Head(t) \in Whitespace THEN LStrip(Tail(t)) ELSE t

RECURSIVE RStrip(_)
RStrip(t) ==
  IF t # <<>> /\ t[Len(t)] \in Whitespace THEN RStrip(SubSeq(t, 1, Len(t) - 1)) ELSE t

\* re.sub of a fence marker, an optional json tag and trailing whitespace by nothing
RECURSIVE StripFences(_)
StripFences(t) ==
  IF t = <<>> THEN <<>>
  ELSE IF Head(t) = FENCE
    THEN LET r1 == Tail(t)
             r2 == IF r1 # <<>> /\ Head(r1) = "json" THEN Tail(r1) ELSE r1
         IN  StripFences(LStrip(r2))
  ELSE <<Head(t)>> \o StripFences(Tail(t))

\* str.find / str.rfind: a 0-based index, -1 when absent.
find(t, c) ==
  IF \E i \in 1..Len(t) : t[i] = c
    THEN (CHOOSE i \in 1..Len(t) : t[i] = c /\ \A j \in 1..(i - 1) : t[j] # c) - 1
    ELSE -1

rfind(t, c) ==
  IF \E i \in 1..Len(t) : t[i] = c
    THEN (CHOOSE i \in 1..Len(t) : t[i] = c /\ \A j \in (i + 1)..Len(t) : t[j] # c) - 1
    ELSE -1

\* cleaned[start:end + 1] for 0 <= start, 0 <= end
Slice(t, start, end) == SubSeq(t, start + 1, end + 1)

_extract_json(text) ==
  LET cleaned == RStrip(LStrip(StripFences(text)))
      start == find(cleaned, "{")
      end == rfind(cleaned, "}")
      sliced == IF start # -1 /\ end # -1 THEN Slice(cleaned, start, end) ELSE cleaned
  IN  json_loads(sliced)

(***************************************************************************)
(* Argument texts of _extract_json: every token sequence up to a length,   *)
(* and the serialization of a JSON object in a code fence after prose.     *)
(***************************************************************************)
MaxLen == 4

Alphabet == {FENCE, "json", " ", "{", "}", "a:", "0", DQ, "x"}

TokenTexts == UNION {[1..n -> Alphabet] : n \in 0..MaxLen}

\* The contents of the strings of the objects, token by token.
StringContents == {<<>>, <<"x">>, <<FENCE>>, <<"x", " ", "}">>}

RECURSIVE Join(_)
Join(c) == IF c = <<>> THEN "" ELSE Head(c) \o Join(Tail(c))

Chars(str) == CHOOSE c \in StringContents : Join(c) = str

Scalars == {Num(n) : n \in 0..2} \cup {Str(Join(c)) : c \in StringContents}

Keys == {"a", "files"}

\* The JSON objects whose members have a value of V.
ObjectsOver(V) ==
  UNION {{Obj({<<k, f[k]>> : k \in K}) : f \in [K -> V]} : K \in SUBSET Keys}

Objects == ObjectsOver(Scalars \cup ObjectsOver(Scalars))

TokOfNum(n) == CHOOSE tok \in NumberTokens : NumOf(tok) = n

TokOfKey(k) == CHOOSE tok \in KeyTokens : KeyOf(tok) = k

ValueOf(m, k) == (CHOOSE p \in m : p[1] = k)[2]

\* The text of a JSON value as json.dumps writes it: a space after each
\* colon and each comma, members in the order a, files.
RECURSIVE Serialize(_)
Serialize(v) ==
  CASE v.kind = "number" -> <<TokOfNum(v.num)>>
    [] v.kind = "string" -> <<DQ>> \o Chars(v.str) \o <<DQ>>
    [] OTHER ->
         LET has(k) == \E p \in v.members : p[1] = k
             member(k) == <<TokOfKey(k), " ">> \o Serialize(ValueOf(v.members, k))
             a == IF has("a") THEN member("a") ELSE <<>>
             sep == IF has("a") /\ has("files") THEN <<",", " ">> ELSE <<>>
             files == IF has("files") THEN member("files") ELSE <<>>
         IN  <<"{">> \o a \o sep \o files \o <<"}">>

\* What the model may write in front of the fence.
Proses == {<<>>, <<"x", " ", "x", "\n">>, <<"x", " ", "{", "x", "}", "\n">>}

\* The opening fence with its optional language tag.
FenceOpenings == {<<FENCE, "\n">>, <<FENCE, "json", "\n">>}

Fenced(prose, opening, o) == prose \o opening \o Serialize(o) \o <<"\n", FENCE>>

(***************************************************************************)
(* Exceptions: the class that decides which except clause catches it, and  *)
(* str(e).                                                                 *)
(***************************************************************************)
Exc(k, m) == [kind |-> k, msg |-> m]

NoExc == Exc("none", "")

\* Messages a failing collaborator may carry.
Messages == {"e1", "e2"}

\* The exceptions of the anthropic.APIError hierarchy other than
\* RateLimitError that messages.create may raise: momentary faults (server
\* errors, connection errors), which carry the class name APIError here,
\* and AuthenticationError, which repeating the call cannot cure.
APIErrors ==
  {Exc("APIError", m) : m \in Messages}
    \cup {Exc("AuthenticationError", "invalid x-api-key")}

(***************************************************************************)
(* FigmaClient.parse_url and fetch_design_data.  A URL is a sequence of    *)
(* tokens: the scheme and host, then delimiters ("/", "?", "#", "=", "&"), *)
(* alphanumeric words, "-", and parameter names and values.  urlparse,     *)
(* re.search and parse_qs are computed on the tokens as the library        *)
(* computes them on the characters; no word of the alphabet begins or ends *)
(* inside another, so a match on characters is a match on tokens.          *)
(***************************************************************************)
FigmaHost == "https://www.figma.com"

AlnumTokens == {"file", "design", "proto", "K1"}

\* The index of the first element of q that is in S, Len(q) + 1 if none.
IndexOf(q, S) ==
  IF \E i \in 1..Len(q) : q[i] \in S
    THEN CHOOSE i \in 1..Len(q) : q[i] \in S /\ \A j \in 1..(i - 1) : q[j] \notin S
    ELSE Len(q) + 1

\* urllib.parse.urlparse: the host runs to the first "/", "?" or "#"; the
\* fragment starts at the first "#"; the query at the first "?" before it.
urlparse(u) ==
  LET rest == IF u # <<>> /\ Head(u) = FigmaHost THEN Tail(u) ELSE u
      afterNetloc == SubSeq(rest, IndexOf(rest, {"/", "?", "#"}), Len(rest))
      noFragment == SubSeq(afterNetloc, 1, IndexOf(afterNetloc, {"#"}) - 1)
      mark == IndexOf(noFragment, {"?"})
  IN  [path |-> SubSeq(noFragment, 1, mark - 1),
       query |-> SubSeq(noFragment, mark + 1, Len(noFragment))]

\* re.search(r"/(?:file|design)/([a-zA-Z0-9]+)", path): the index at which
\* the leftmost match starts, 0 if there is none.
MatchesAt(path, i) ==
  /\ i + 3 <= Len(path)
  /\ path[i] = "/"
  /\ path[i + 1] \in {"file", "design"}
  /\ path[i + 2] = "/"
  /\ path[i + 3] \in AlnumTokens

MatchIndex(path) ==
  IF \E i \in 1..Len(path) : MatchesAt(path, i)
    THEN CHOOSE i \in 1..Len(path) :
           MatchesAt(path, i) /\ \A j \in 1..(i - 1) : ~MatchesAt(path, j)
    ELSE 0

\* match.group(1): the longest alphanumeric run that starts at index i.
RECURSIVE AlnumPrefix(_, _)
AlnumPrefix(path, i) ==
  IF i <= Len(path) /\ path[i] \in AlnumTokens
    THEN path[i] \o AlnumPrefix(path, i + 1)
    ELSE ""

\* str.split(sep) on a query.
RECURSIVE SplitOn(_, _)
SplitOn(q, sep) ==
  LET i == IndexOf(q, {sep})
  IN  IF i > Len(q) THEN <<q>>
      ELSE <<SubSeq(q, 1, i - 1)>> \o SplitOn(SubSeq(q, i + 1, Len(q)), sep)

\* urllib.parse.unquote of a token.
Unquote(tok) == IF tok = "1%3A2" THEN "1:2" ELSE tok

RECURSIVE UnquoteAll(_)
UnquoteAll(q) == IF q = <<>> THEN "" ELSE Unquote(Head(q)) \o UnquoteAll(Tail(q))

\* urllib.parse.parse_qs(query).get(name, [None])[0]: the pairs are split on
\* "&", each at its first "="; a pair without "=" or with a blank value is
\* dropped; the first value left for the name is returned.
RECURSIVE FirstValue(_, _)
FirstValue(pairs, name) ==
  IF pairs = <<>> THEN None
  ELSE LET pair == Head(pairs)
           eq == IndexOf(pair, {"="})
           value == SubSeq(pair, eq + 1, Len(pair))
       IN  IF /\ eq <= Len(pair)
              /\ value # <<>>
              /\ UnquoteAll(SubSeq(pair, 1, eq - 1)) = name
             THEN UnquoteAll(value)
             ELSE FirstValue(Tail(pairs), name)

parse_qs_get(query, name) == FirstValue(SplitOn(query, "&"), name)

parse_url(u) ==
  LET parsed == urlparse(u)
      m == MatchIndex(parsed.path)
  IN  IF m = 0
        THEN [ok |-> FALSE, file_key |-> "", node_id |-> None]
        ELSE [ok |-> TRUE, file_key |-> AlnumPrefix(parsed.path, m + 3),
              node_id |-> parse_qs_get(parsed.query, "node-id")]

\* The arguments of Pipeline.run: a design URL with a node, a file URL
\* without one, and a URL that names no file.
Urls ==
  { <<FigmaHost, "/", "design", "/", "K1", "/", "K1", "-", "K1",
      "?", "node-id", "=", "1-2">>,
    <<FigmaHost, "/", "file", "/", "K1">>,
    <<FigmaHost, "/", "proto", "/", "K1">> }

\* The arguments of parse_url: every path of up to MaxPath tokens after the
\* leading "/" with no query or with a node, and a file path and a path
\* without a file with every query of up to MaxQuery tokens.
MaxPath == 4
MaxQuery == 3

PathAlphabet == {"/", "file", "design", "K1", "-", "#"}
QueryAlphabet == {"node-id", "=", "1-2", "1%3A2", "&"}

SeqsUpTo(S, n) == UNION {[1..k -> S] : k \in 0..n}

UrlTexts ==
  {<<FigmaHost, "/">> \o p \o q :
     p \in SeqsUpTo(PathAlphabet, MaxPath),
     q \in {<<>>, <<"?", "node-id", "=", "1-2">>}}
  \cup
  {<<FigmaHost, "/">> \o p \o <<"?">> \o q :
     p \in {<<"file", "/", "K1">>, <<"proto", "/", "K1">>},
     q \in SeqsUpTo(QueryAlphabet, MaxQuery)}

\* The names of the documents the design API may answer with.
DocNames == {"Landing", "Untitled"}

\* The dictionary fetch_design_data builds: always seven keys, never empty.
\* The key, node and name are kept; the document and the three lists
\* extracted from it are a function of the answer and stand as its name.
design_data(file_key, node_id, name) ==
  Obj({ <<"file_key", Str(file_key)>>,
        <<"node_id", IF node_id = None THEN Null ELSE Str(node_id)>>,
        <<"name", Str(name)>>, <<"document", Str(name)>> })

(***************************************************************************)
(* The pipeline: stages, messages and progress values.                     *)
(***************************************************************************)
STAGES == <<"fetch", "designer", "architect", "coder", "reviewer", "done">>

OpStages == {"fetch", "designer", "architect", "coder", "reviewer"}

AgentStages == {"designer", "architect", "coder", "reviewer"}

StageIndex(s) == CHOOSE i \in 1..Len(STAGES) : STAGES[i] = s

\* A run whose third block is missing: the coder follows the designer.
NextStage_skipArchitect(s) ==
  IF s = "" THEN "fetch"
  ELSE IF s = "designer" THEN "coder"
  ELSE STAGES[StageIndex(s) + 1]

\* The stage whose block follows the block of s in Pipeline.run.
NextStage(s) == IF s = "" THEN "fetch" ELSE STAGES[StageIndex(s) + 1]

\* Every block opening at progress zero.
PreProgress_restart(s) == 0

\* The progress passed to the notification that opens the block of s.
PreProgress(s) == 2 * (StageIndex(s) - 1)

\* Every block closes under its own stage name.
PostStage_ownName(s) == s

\* The notification that closes the block of s: the reviewer's block closes
\* with the done notification.
PostStage(s) == IF s = "reviewer" THEN "done" ELSE s

\* The closing notification repeats the opening progress.
PostProgress_stale(s) == 2 * (StageIndex(s) - 1)

PostProgress(s) == 2 * StageIndex(s)

\* The human-readable messages are glossed in English; each is a constant
\* of its notification.
PreMessage(s) == s \o " in progress"

PostMessage(s) == IF s = "reviewer" THEN "all stages complete" ELSE s \o " complete"

\* The field of PipelineResult the block of s assigns.
Artifact(s) ==
  CASE s = "fetch" -> "figma_data"
    [] s = "designer" -> "design_analysis"
    [] s = "architect" -> "architecture"
    [] s = "coder" -> "generated_code"
    [] s = "reviewer" -> "review"

ArtifactFields ==
  {"figma_data", "design_analysis", "architecture", "generated_code", "review"}

PipelineResult ==
  [figma_data |-> EmptyDict, design_analysis |-> EmptyDict,
   architecture |-> EmptyDict, generated_code |-> EmptyDict,
   review |-> EmptyDict, error |-> None, current_stage |-> ""]

\* success that looks at the error alone.
success_errorOnly(r) == r.error = None

success(r) == r.error = None /\ Truthy(r.review)

\* What Pipeline.run passes to the run method of the agent of stage s.
\* Every agent asking for the default of generate_json.
AgentMaxTokens_default(s) == 8192

\* The max_tokens each agent's run passes to generate_json.
AgentMaxTokens(s) ==
  CASE s = "designer" -> 4096
    [] s = "architect" -> 8192
    [] s = "coder" -> 16384
    [] s = "reviewer" -> 4096

\* Arguments with the architecture handed to the reviewer as the analysis.
AgentArgs_reviewerGetsArchitecture(s, r) ==
  CASE s = "designer" -> <<r.figma_data>>
    [] s = "architect" -> <<r.design_analysis>>
    [] s = "coder" -> <<r.architecture, r.design_analysis>>
    [] s = "reviewer" -> <<r.generated_code, r.architecture>>

AgentArgs(s, r) ==
  CASE s = "designer" -> <<r.figma_data>>
    [] s = "architect" -> <<r.design_analysis>>
    [] s = "coder" -> <<r.architecture, r.design_analysis>>
    [] s = "reviewer" -> <<r.generated_code, r.design_analysis>>

\* _build_prompt calls .get on these arguments, which only a dict has:
\* the designer on figma_data, the coder on design_analysis, the reviewer
\* on generated_code and design_analysis.  The architect only serializes.
GetReceivers(s, args) ==
  CASE s = "designer" -> {args[1]}
    [] s = "architect" -> {}
    [] s = "coder" -> {args[2]}
    [] s = "reviewer" -> {args[1], args[2]}

\* for f in v.get(key, []): f.get(...) -- the loop body needs dicts.  Of
\* the values of this model only an absent member, an empty dict and an
\* empty string iterate to nothing; a number or None is not iterable and
\* a non-empty dict or string yields strings, which have no .get.
IterGetRaises(v, key) ==
  \E p \in v.members : p[1] = key /\ p[2] \notin {EmptyDict, Str("")}

\* The exception _build_prompt of stage s raises on args, NoExc if none.
BuildPromptError(s, args) ==
  IF \E v \in GetReceivers(s, args) : ~HasGet(v)
    THEN Exc("AttributeError", "object has no attribute get")
  ELSE IF s = "reviewer" /\ (IterGetRaises(args[1], "files")
                             \/ IterGetRaises(args[2], "components"))
    THEN Exc("TypeError", "object is not iterable")
  ELSE NoExc

\* The error text without the stage prefix.
ErrorText_noStage(stage, e) == e.msg

\* f"[{result.current_stage}] {e}"
ErrorText(stage, e) == "[" \o stage \o "] " \o e.msg

(***************************************************************************)
(* Document trees of the design API.  A dict is a record with the set of   *)
(* the keys it holds; a string is the sequence of its characters; a colour *)
(* channel is in hundredths and an alpha in thousandths.                   *)
(***************************************************************************)
\* dict.get(key, default)
get(d, key, default) == IF key \in d.keys THEN d[key] ELSE default

Color(ks, r, g, b, a) == [keys |-> ks, r |-> r, g |-> g, b |-> b, a |-> a]

EmptyColor == Color({}, 0, 0, 0, 0)

Fill(ks, color) == [keys |-> ks, color |-> color]

Style(ks, family, size, weight) ==
  [keys |-> ks, fontFamily |-> family, fontSize |-> size, fontWeight |-> weight]

EmptyStyle == Style({}, <<>>, 0, 0)

Inter == <<"I", "n", "t", "e", "r">>

arial == <<"a", "r", "i", "a", "l">>

BBox(ks, width, height) == [keys |-> ks, width |-> width, height |-> height]

EmptyBBox == BBox({}, 0, 0)

\* What a node holds besides its children.
Templates ==
  { [keys |-> {}, fills |-> <<>>, style |-> EmptyStyle,
     type |-> "", name |-> "", absoluteBoundingBox |-> EmptyBBox],
    [keys |-> {"fills", "style", "type", "name", "absoluteBoundingBox"},
     fills |-> <<Fill({"color"}, Color({"r", "g", "b"}, 100, 0, 0, 0))>>,
     style |-> Style({"fontFamily"}, Inter, 0, 0),
     type |-> "FRAME", name |-> "Hero",
     absoluteBoundingBox |-> BBox({"width", "height"}, 100, 50)],
    [keys |-> {"fills", "style", "type", "name", "absoluteBoundingBox"},
     fills |-> <<Fill({"color"}, Color({"r", "g", "b", "a"}, 100, 0, 0, 1000)),
                 Fill({"color"}, Color({"r", "g", "b", "a"}, 50, 50, 50, 500))>>,
     style |-> Style({"fontFamily", "fontSize", "fontWeight"}, Inter, 16, 400),
     type |-> "TEXT", name |-> "Title",
     absoluteBoundingBox |-> BBox({"width", "height"}, 80, 20)],
    [keys |-> {"fills", "style", "type"},
     fills |-> <<Fill({}, EmptyColor), Fill({"color"}, EmptyColor)>>,
     style |-> Style({"fontFamily", "fontSize"}, <<>>, 12, 0),
     type |-> "GROUP", name |-> "", absoluteBoundingBox |-> EmptyBBox],
    [keys |-> {"fills", "style", "type", "name", "absoluteBoundingBox"},
     fills |-> <<Fill({"color"}, Color({"g", "b", "a"}, 0, 20, 100, 999))>>,
     style |-> Style({"fontFamily", "fontSize", "fontWeight"}, arial, 12, 700),
     type |-> "COMPONENT", name |-> "Button",
     absoluteBoundingBox |-> BBox({"width"}, 40, 0)],
    [keys |-> {"fills", "style", "type", "name", "absoluteBoundingBox"},
     fills |-> <<Fill({"color"}, Color({"b"}, 0, 0, 100, 0))>>,
     style |-> Style({"fontFamily", "fontSize"}, Inter, 12, 0),
     type |-> "INSTANCE", name |-> "Button",
     absoluteBoundingBox |-> BBox({"width", "height"}, 40, 16)] }

\* A node with the fields of template t and the children kids; a node
\* without children holds no children key.
Node(t, kids) ==
  [keys |-> t.keys \cup (IF kids = <<>> THEN {} ELSE {"children"}),
   fills |-> t.fills, style |-> t.style, type |-> t.type, name |-> t.name,
   absoluteBoundingBox |-> t.absoluteBoundingBox, children |-> kids]

EmptyNode ==
  [keys |-> {}, fills |-> <<>>, style |-> EmptyStyle, type |-> "", name |-> "",
   absoluteBoundingBox |-> EmptyBBox, children |-> <<>>]

MaxNodes == 3

\* The trees of n nodes, and the sequences of trees of m nodes in all.
RECURSIVE TreesOfSize(_)
RECURSIVE Forests(_)
TreesOfSize(n) == {Node(t, kids) : t \in Templates, kids \in Forests(n - 1)}

Forests(m) ==
  IF m = 0 THEN {<<>>}
  ELSE UNION {{<<first>> \o rest : first \in TreesOfSize(k), rest \in Forests(m - k)} :
                k \in 1..m}

Documents == UNION {TreesOfSize(n) : n \in 1..MaxNodes}

Range(q) == {q[i] : i \in 1..Len(q)}

(***************************************************************************)
(* Strings compare by code point: the characters in ascending order.       *)
(***************************************************************************)
CodeOrder ==
  <<"#", "(", ")", ",", ".", "0", "1", "2", "3", "4", "5", "6", "7", "8", "9",
    "A", "I", "a", "b", "c", "d", "e", "f", "g", "i", "l", "n", "r", "t">>

Ord(c) == CHOOSE i \in 1..Len(CodeOrder) : CodeOrder[i] = c

\* x < y of two strings: the first character that differs decides, and a
\* proper prefix is less.
RECURSIVE StrLess(_, _)
StrLess(x, y) ==
  IF y = <<>> THEN FALSE
  ELSE IF x = <<>> THEN TRUE
  ELSE IF Head(x) = Head(y) THEN StrLess(Tail(x), Tail(y))
  ELSE Ord(Head(x)) < Ord(Head(y))

\* x < y of two (family, size, weight) tuples
TupleLess(x, y) ==
  \/ StrLess(x[1], y[1])
  \/ x[1] = y[1] /\ x[2] < y[2]
  \/ x[1] = y[1] /\ x[2] = y[2] /\ x[3] < y[3]

\* The ways a set can be iterated.
Listings(S) ==
  LET n == Cardinality(S)
  IN  {q \in [1..n -> S] : \A i, j \in 1..n : i # j => q[i] # q[j]}

\* x < y as Python dispatches it on the type of the operands
Less(type, x, y) == IF type = "str" THEN StrLess(x, y) ELSE TupleLess(x, y)

\* sorted(q) of a list of elements of one type without duplicates: each
\* element stands after the elements less than it.
sorted(q, type) ==
  LET S == Range(q)
  IN  [i \in 1..Len(q) |->
         CHOOSE e \in S : Cardinality({y \in S : Less(type, y, e)}) = i - 1]

(***************************************************************************)
(* FigmaClient._extract_colors.                                            *)
(***************************************************************************)
HexDigits ==
  <<"0", "1", "2", "3", "4", "5", "6", "7", "8", "9", "a", "b", "c", "d", "e", "f">>

\* f"{n:02x}" for n < 256
Hex02(n) == <<HexDigits[(n \div 16) + 1], HexDigits[(n % 16) + 1]>>

\* f"{n}" for a natural number n
RECURSIVE Dec(_)
Dec(n) ==
  IF n < 10 THEN <<HexDigits[n + 1]>> ELSE Dec(n \div 10) \o <<HexDigits[(n % 10) + 1]>>

\* f"{a:.2f}" for an alpha of a thousandths that is no tie between two
\* hundredths
Fixed2(a) ==
  LET h == (a + 5) \div 10
  IN  Dec(h \div 100) \o <<".">> \o <<HexDigits[((h \div 10) % 10) + 1], HexDigits[(h % 10) + 1]>>

\* int(c * 255) for a channel of c hundredths
Channel(c) == (c * 255) \div 100

\* An rgba form for every alpha up to 1, 1 included.
FormatColor_alphaInclusive(color) ==
  LET r == Channel(get(color, "r", 0))
      g == Channel(get(color, "g", 0))
      b == Channel(get(color, "b", 0))
      a == get(color, "a", 1000)
  IN  IF a <= 1000
        THEN <<"r", "g", "b", "a", "(">> \o Dec(r) \o <<",">> \o Dec(g) \o <<",">>
               \o Dec(b) \o <<",">> \o Fixed2(a) \o <<")">>
        ELSE <<"#">> \o Hex02(r) \o Hex02(g) \o Hex02(b)

\* The string one fill's colour adds to the set.
FormatColor(color) ==
  LET r == Channel(get(color, "r", 0))
      g == Channel(get(color, "g", 0))
      b == Channel(get(color, "b", 0))
      a == get(color, "a", 1000)
  IN  IF a < 1000
        THEN <<"r", "g", "b", "a", "(">> \o Dec(r) \o <<",">> \o Dec(g) \o <<",">>
               \o Dec(b) \o <<",">> \o Fixed2(a) \o <<")">>
        ELSE <<"#">> \o Hex02(r) \o Hex02(g) \o Hex02(b)

\* The set the recursion has filled when the call on node returns.
RECURSIVE CollectColors(_)
CollectColors(node) ==
  LET fills == get(node, "fills", <<>>)
      own == {FormatColor(get(fills[i], "color", EmptyColor)) :
                i \in {j \in 1..Len(fills) : get(fills[j], "color", EmptyColor).keys # {}}}
      children == get(node, "children", <<>>)
  IN  own \cup UNION {CollectColors(children[i]) : i \in 1..Len(children)}

(***************************************************************************)
(* FigmaClient._extract_fonts.                                             *)
(***************************************************************************)
\* A style whose missing weight counts as 0.
FontTuple_noDefaultWeight(style) ==
  <<get(style, "fontFamily", <<>>), get(style, "fontSize", 16), get(style, "fontWeight", 0)>>

\* The tuple the style of a node with a font family adds to the set.
FontTuple(style) ==
  <<get(style, "fontFamily", <<>>), get(style, "fontSize", 16), get(style, "fontWeight", 400)>>

\* A recursion for which a node without a style has the style Inter.
RECURSIVE CollectFonts_defaultFamily(_)
CollectFonts_defaultFamily(node) ==
  LET style == get(node, "style", Style({"fontFamily"}, Inter, 0, 0))
      own == IF get(style, "fontFamily", <<>>) # <<>> THEN {FontTuple(style)} ELSE {}
      children == get(node, "children", <<>>)
  IN  own \cup UNION {CollectFonts_defaultFamily(children[i]) : i \in 1..Len(children)}

RECURSIVE CollectFonts(_)
CollectFonts(node) ==
  LET style == get(node, "style", EmptyStyle)
      own == IF get(style, "fontFamily", <<>>) # <<>> THEN {FontTuple(style)} ELSE {}
      children == get(node, "children", <<>>)
  IN  own \cup UNION {CollectFonts(children[i]) : i \in 1..Len(children)}

FontRecord(f) == [family |-> f[1], size |-> f[2], weight |-> f[3]]

(***************************************************************************)
(* FigmaClient._extract_components.                                        *)
(***************************************************************************)
\* dict.get(key): the value in a list of one, the empty list for None.
getOrNone(d, key) == IF key \in d.keys THEN <<d[key]>> ELSE <<>>

ComponentTypes == {"FRAME", "COMPONENT", "INSTANCE", "GROUP"}

\* A record whose depth is counted from 1.
ComponentRecord_depthFromOne(node, depth) ==
  LET bbox == get(node, "absoluteBoundingBox", EmptyBBox)
  IN  [name |-> get(node, "name", ""),
       type |-> get(node, "type", ""),
       depth |-> depth + 1,
       width |-> getOrNone(bbox, "width"),
       height |-> getOrNone(bbox, "height"),
       children_count |-> Len(get(node, "children", <<>>))]

\* The record appended for a node of one of the component types.
ComponentRecord(node, depth) ==
  LET bbox == get(node, "absoluteBoundingBox", EmptyBBox)
  IN  [name |-> get(node, "name", ""),
       type |-> get(node, "type", ""),
       depth |-> depth,
       width |-> getOrNone(bbox, "width"),
       height |-> getOrNone(bbox, "height"),
       children_count |-> Len(get(node, "children", <<>>))]

RECURSIVE _extract_components(_, _)
RECURSIVE ExtendWithChildren(_, _, _)
_extract_components(node, depth) ==
  LET own == IF get(node, "type", "") \in ComponentTypes
               THEN <<ComponentRecord(node, depth)>>
               ELSE <<>>
  IN  ExtendWithChildren(own, get(node, "children", <<>>), depth)

\* The loop over the children: the list of each child, in order, extends
\* components.
ExtendWithChildren(components, children, depth) ==
  IF children = <<>> THEN components
  ELSE ExtendWithChildren(components \o _extract_components(Head(children), depth + 1),
                          Tail(children), depth)

(***************************************************************************)
(* Responses of the model API.                                             *)
(***************************************************************************)
Texts ==
  { <<"Here is the result:", "\n", FENCE, "json", "\n", "{", "a:", "1", "}", "\n", FENCE>>,
    <<"{", "files:", "2", "}">>,
    <<"{", "}">>,
    <<"0">>,
    <<"I cannot help with that">> }

(***************************************************************************)
(* DesignerAgent._build_prompt.  The design data is a dict with a name     *)
(* and three lists; a colour is its string, a font its record, a component *)
(* entry the number that identifies it.  The prompt is the sequence of the *)
(* pieces the f-string joins: headings, and the tokens json.dumps writes   *)
(* for a list.                                                             *)
(***************************************************************************)
TOP_COMPONENTS == 30

MaxComponents == 32

DesignData(ks, name, cs, fs, comps) ==
  [keys |-> ks, name |-> name, colors |-> cs, fonts |-> fs, components |-> comps]

\* Component lists of every length up to the bound, in ascending and in
\* descending order of their entries.
ComponentLists ==
  UNION {{[i \in 1..n |-> i], [i \in 1..n |-> n + 1 - i]} : n \in 0..MaxComponents}

ColorLists == {<<>>, <<"#ff0000">>, <<"#0033ff", "#ff0000">>}

FontLists ==
  {<<>>,
   <<[family |-> "Inter", size |-> 16, weight |-> 400]>>,
   <<[family |-> "Inter", size |-> 12, weight |-> 400],
     [family |-> "arial", size |-> 12, weight |-> 700]>>}

DesignDatas ==
  {DesignData({"name", "colors", "fonts", "components"}, "Landing", cs, fs, comps) :
     cs \in ColorLists, fs \in FontLists, comps \in ComponentLists}
  \cup {DesignData({}, "", <<>>, <<>>, <<>>)}

\* json.dumps of a string, of a font record and of a component entry.
DumpColor(c) == DQ \o c \o DQ

DumpFont(f) ==
  "{family: " \o DQ \o f.family \o DQ \o ", size: " \o ToString(f.size)
    \o ", weight: " \o ToString(f.weight) \o "}"

DumpComponent(c) == "{name: " \o DQ \o "c" \o ToString(c) \o DQ \o "}"

Dump(kind, v) ==
  CASE kind = "color" -> DumpColor(v)
    [] kind = "font" -> DumpFont(v)
    [] kind = "component" -> DumpComponent(v)

\* json.dumps(list, indent=2): the brackets, and the items with a comma
\* between each two.
RECURSIVE DumpItems(_, _)
DumpItems(kind, q) ==
  IF q = <<>> THEN <<>>
  ELSE IF Len(q) = 1 THEN <<Dump(kind, q[1])>>
  ELSE <<Dump(kind, q[1]), ",">> \o DumpItems(kind, Tail(q))

dumps(kind, q) == <<"[">> \o DumpItems(kind, q) \o <<"]">>

\* A slice that keeps the whole list.
Top_all(q) == q

\* components[:30]
Top(q) == SubSeq(q, 1, IF Len(q) < TOP_COMPONENTS THEN Len(q) ELSE TOP_COMPONENTS)

_build_prompt(figma_data) ==
  LET name == get(figma_data, "name", "unknown")
      cs == get(figma_data, "colors", <<>>)
      fs == get(figma_data, "fonts", <<>>)
      components == get(figma_data, "components", <<>>)
      top_components == Top(components)
  IN  <<"Analyse the design data.", "FILE NAME", name, "COLORS">>
        \o dumps("color", cs)
        \o <<"FONTS">>
        \o dumps("font", fs)
        \o <<"COMPONENTS top", ToString(Len(top_components))>>
        \o dumps("component", top_components)
        \o <<"Output the structured design analysis.">>

(***************************************************************************)
(* State.                                                                  *)
(***************************************************************************)
VARIABLES
  pc,             \* the position of Pipeline.run
  figma_url,      \* the argument of Pipeline.run
  result,         \* the PipelineResult of the run
  exc,            \* the exception in flight
  notifications,  \* the calls made to on_progress, in order
  callbackRaised, \* history: on_progress has raised
  opLog,          \* history: stage operations called, returned, raised
  inputs,         \* history: the arguments each agent's run was called with
  max_tokens,     \* history: the max_tokens each agent passed to generate_json
  returned,       \* history: what each stage operation returned
  httpRequests,   \* requests sent to the design API
  attempt,        \* the loop variable of ClaudeClient.generate
  attemptLog,     \* history: the failures of the current generate call
  apiCalls,       \* history: messages.create calls of the current generate call
  waits,          \* history: the time.sleep calls of the current generate call
  totalCalls,     \* history: the messages.create calls of the run, where metered
  totalWaits,     \* history: the time.sleep calls of the run, where metered
  raw,            \* the text generate returned to generate_json, if any
  text,           \* the argument of a call of _extract_json
  origin,         \* history: <<prose, opening, o>> when text is Fenced(prose, opening, o)
  extracted,      \* what the call of _extract_json did, once it has
  document,       \* the tree colours and fonts are extracted from
  colors,         \* the list _extract_colors returned, once it has
  fonts,          \* the list _extract_fonts returned, once it has
  components,     \* the list _extract_components returned, once it has
  url,            \* the argument of a call of parse_url
  urlResult,      \* what the call of parse_url did, once it has
  figma_data,     \* the argument of a call of DesignerAgent._build_prompt
  user_message,   \* the prompt the call returned, once it has
  world,          \* what the collaborators may answer in this behaviour
  active,         \* the caller whose run is executing
  parked,         \* the frame of the other caller's run, if there is one
  argv,           \* sys.argv[1:] of a run of launcher.py
  agent,          \* the position of run_pipeline: the index of the next agent
  started,        \* history: the agents run_agent has started, in order
  exits,          \* history: how the subprocess of each started agent ended
  results,        \* the dict of run_pipeline, as its list of (name, stdout)
  project_files,  \* the output files present in PROJECT_DIR
  zip_data,       \* what build_zip returned
  exports,        \* the archives saved in exports/
  launcherCalls,  \* history: build_zip and save_to_exports, as called
  raisedExc,      \* history: the exception that ended run_pipeline
  exit_status     \* the exit status of the launcher process, once it has ended

vars ==
  <<pc, figma_url, result, exc, notifications, callbackRaised, opLog, inputs, max_tokens,
    returned, httpRequests, attempt, attemptLog, apiCalls, waits, raw,
    totalCalls, totalWaits,
    text, origin, extracted, document, colors, fonts, components,
    url, urlResult, figma_data, user_message, world, active, parked,
    argv, agent, started, exits, results, project_files, zip_data, exports,
    launcherCalls, raisedExc, exit_status>>

\* The state of the calls of single functions; a run of the pipeline leaves
\* it alone.
jsonVars == <<text, origin, extracted>>

extractVars == <<document, colors, fonts, components>>

urlVars == <<url, urlResult>>

promptVars == <<figma_data, user_message>>

runVars == <<world, active, parked>>

launcherVars ==
  <<argv, agent, started, exits, results, project_files, zip_data, exports,
    launcherCalls, raisedExc, exit_status>>

fnVars == <<jsonVars, extractVars, urlVars, promptVars, runVars, launcherVars>>

JsonIdle ==
  /\ text = <<>>
  /\ origin = <<>>
  /\ extracted = <<>>

ExtractIdle ==
  /\ document = EmptyNode
  /\ colors = <<>>
  /\ fonts = <<>>
  /\ components = <<>>

UrlIdle ==
  /\ url = <<>>
  /\ urlResult = <<>>

PromptIdle ==
  /\ figma_data = DesignData({}, "", <<>>, <<>>, <<>>)
  /\ user_message = <<>>

\* Every answer of the model is offered, and one caller runs.
World == [texts |-> Texts, messages |-> Messages, apiErrors |-> APIErrors,
          docNames |-> DocNames, metered |-> FALSE]

OneRun ==
  /\ world = World
  /\ active = 1
  /\ parked = <<>>

\* launcher.py is not running.
LauncherIdle ==
  /\ argv = <<>>
  /\ agent = 0
  /\ started = <<>>
  /\ exits = <<>>
  /\ results = <<>>
  /\ project_files = {}
  /\ zip_data = None
  /\ exports = <<>>
  /\ launcherCalls = <<>>
  /\ raisedExc = NoExc
  /\ exit_status = None

FnIdle == JsonIdle /\ ExtractIdle /\ UrlIdle /\ PromptIdle /\ OneRun /\ LauncherIdle

genVars == <<attempt, attemptLog, apiCalls, waits, raw, totalCalls, totalWaits>>

\* A pipeline on which run has not been called.
PipelineIdle ==
  /\ result = PipelineResult
  /\ exc = NoExc
  /\ notifications = <<>>
  /\ callbackRaised = FALSE
  /\ opLog = <<>>
  /\ inputs = [s \in AgentStages |-> <<>>]
  /\ max_tokens = [s \in AgentStages |-> <<>>]
  /\ returned = [s \in OpStages |-> <<>>]
  /\ httpRequests = 0
  /\ attempt = 0
  /\ attemptLog = <<>>
  /\ apiCalls = 0
  /\ waits = <<>>
  /\ totalCalls = 0
  /\ totalWaits = 0
  /\ raw = <<>>

Init ==
  /\ pc = "advance"
  /\ figma_url \in Urls
  /\ PipelineIdle
  /\ FnIdle

(***************************************************************************)
(* Pipeline._notify: on_progress is called; it returns, or it raises and   *)
(* the exception leaves _notify.  Inside the try block of run the except   *)
(* clause is next.                                                         *)
(***************************************************************************)
\* What one call or one sleep adds to the totals of the run: the totals
\* are kept in the behaviours whose world is metered.
Metered(n) == IF world.metered THEN n ELSE 0

_notify(stage, message, progress, okPc) ==
  /\ notifications' = Append(notifications, <<stage, message, progress>>)
  /\ \/ /\ pc' = okPc
        /\ UNCHANGED <<exc, callbackRaised>>
     \/ \E m \in world.messages :
          /\ pc' = "except"
          /\ exc' = Exc("CallbackError", m)
          /\ callbackRaised' = TRUE

\* result.current_stage = <next stage>, the first statement of each block.
EnterStage ==
  /\ pc = "advance"
  /\ UNCHANGED fnVars
  /\ result' = [result EXCEPT !.current_stage = NextStage(result.current_stage)]
  /\ pc' = "notify_pre"
  /\ UNCHANGED <<figma_url, exc, notifications, callbackRaised, opLog, inputs, max_tokens,
                 returned, httpRequests, genVars>>

\* The notification that opens a block.
NotifyPre ==
  /\ pc = "notify_pre"
  /\ UNCHANGED fnVars
  /\ _notify(result.current_stage, PreMessage(result.current_stage),
             PreProgress(result.current_stage), "op")
  /\ UNCHANGED <<figma_url, result, opLog, inputs, max_tokens, returned, httpRequests, genVars>>

\* A fetch that sends the request before it looks at the URL.
FetchParseUrl_requestsFirst ==
  /\ pc = "op"
  /\ UNCHANGED fnVars
  /\ result.current_stage = "fetch"
  /\ pc' = "http"
  /\ opLog' = Append(opLog, <<"call", "fetch">>)
  /\ exc' = exc
  /\ UNCHANGED <<figma_url, result, notifications, callbackRaised, inputs, max_tokens,
                 returned, httpRequests, genVars>>

\* fetch_design_data is called and parses the URL; an invalid URL raises
\* before any request.
FetchParseUrl ==
  /\ pc = "op"
  /\ UNCHANGED fnVars
  /\ result.current_stage = "fetch"
  /\ IF parse_url(figma_url).ok
       THEN /\ pc' = "http"
            /\ opLog' = Append(opLog, <<"call", "fetch">>)
            /\ exc' = exc
       ELSE /\ pc' = "except"
            /\ opLog' = opLog \o << <<"call", "fetch">>, <<"raise", "fetch">> >>
            /\ exc' = Exc("ValueError", "invalid Figma URL: " \o Join(figma_url))
  /\ UNCHANGED <<figma_url, result, notifications, callbackRaised, inputs, max_tokens,
                 returned, httpRequests, genVars>>

\* get_node or get_file: the request fails (raise_for_status; any other
\* exception while the answer is read takes the same path) or answers; on
\* an answer the design data is built and stored.
FetchRequest ==
  /\ pc = "http"
  /\ UNCHANGED fnVars
  /\ httpRequests' = httpRequests + 1
  /\ \/ \E m \in world.messages :
          /\ pc' = "except"
          /\ exc' = Exc("HTTPError", m)
          /\ opLog' = Append(opLog, <<"raise", "fetch">>)
          /\ UNCHANGED <<result, returned>>
     \/ \E name \in world.docNames :
          LET p == parse_url(figma_url)
              d == design_data(p.file_key, p.node_id, name)
          IN  /\ result' = [result EXCEPT !.figma_data = d]
              /\ returned' = [returned EXCEPT !["fetch"] = <<d>>]
              /\ opLog' = Append(opLog, <<"return", "fetch">>)
              /\ pc' = "notify_post"
              /\ exc' = exc
  /\ UNCHANGED <<figma_url, notifications, callbackRaised, inputs, max_tokens, genVars>>

\* An agent's run is called: it builds the prompt and enters
\* generate_json, hence generate, whose loop starts at attempt 0.
AgentCall ==
  /\ pc = "op"
  /\ UNCHANGED fnVars
  /\ result.current_stage \in AgentStages
  /\ LET s == result.current_stage
         args == AgentArgs(s, result)
     IN  /\ inputs' = [inputs EXCEPT ![s] = args]
         /\ IF BuildPromptError(s, args) # NoExc
              THEN /\ pc' = "except"
                   /\ exc' = BuildPromptError(s, args)
                   /\ opLog' = opLog \o << <<"call", s>>, <<"raise", s>> >>
                   /\ UNCHANGED <<genVars, max_tokens>>
              ELSE /\ pc' = "api"
                   /\ exc' = exc
                   /\ opLog' = Append(opLog, <<"call", s>>)
                   /\ max_tokens' = [max_tokens EXCEPT ![s] = <<AgentMaxTokens(s)>>]
                   /\ attempt' = 0
                   /\ attemptLog' = <<>>
                   /\ apiCalls' = 0
                   /\ waits' = <<>>
                   /\ UNCHANGED <<totalCalls, totalWaits>>
                   /\ raw' = <<>>
  /\ UNCHANGED <<figma_url, result, notifications, callbackRaised, returned,
                 httpRequests>>

\* messages.create answers: generate returns the text, generate_json
\* extracts the JSON value, the agent returns it and run stores it; or the
\* extraction raises.
ApiReturns ==
  /\ pc = "api"
  /\ UNCHANGED fnVars
  /\ apiCalls' = apiCalls + 1
  /\ totalCalls' = totalCalls + Metered(1)
  /\ \E reply \in world.texts :
       LET s == result.current_stage
           r == _extract_json(reply)
       IN  /\ raw' = <<reply>>
           /\ IF r.ok
             THEN /\ result' = [result EXCEPT ![Artifact(s)] = r.val]
                  /\ returned' = [returned EXCEPT ![s] = <<r.val>>]
                  /\ opLog' = Append(opLog, <<"return", s>>)
                  /\ pc' = "notify_post"
                  /\ exc' = exc
             ELSE /\ exc' = Exc("JSONDecodeError", "Expecting value")
                  /\ opLog' = Append(opLog, <<"raise", s>>)
                  /\ pc' = "except"
                  /\ UNCHANGED <<result, returned>>
  /\ UNCHANGED <<figma_url, notifications, callbackRaised, inputs, max_tokens, httpRequests,
                 attempt, attemptLog, waits, totalWaits>>

\* An off-by-one guard: the last attempt sleeps and retries as well.
RetryOrRaise_extraAttempt(e, wait) ==
  /\ apiCalls' = apiCalls + 1
  /\ totalCalls' = totalCalls + Metered(1)
  /\ attemptLog' = Append(attemptLog, e)
  /\ IF attempt < _MAX_RETRIES
       THEN /\ waits' = Append(waits, wait)
            /\ totalWaits' = totalWaits + Metered(1)
            /\ attempt' = attempt + 1
            /\ pc' = "api"
            /\ UNCHANGED <<exc, opLog>>
       ELSE /\ exc' = e
            /\ opLog' = Append(opLog, <<"raise", result.current_stage>>)
            /\ pc' = "except"
            /\ UNCHANGED <<waits, totalWaits, attempt>>
  /\ UNCHANGED <<figma_url, result, notifications, callbackRaised, inputs, max_tokens,
                 returned, httpRequests, raw>>

\* A generate that reports each retry to the progress callback.
RetryOrRaise_noisy(e, wait) ==
  /\ apiCalls' = apiCalls + 1
  /\ totalCalls' = totalCalls + Metered(1)
  /\ attemptLog' = Append(attemptLog, e)
  /\ IF attempt < _MAX_RETRIES - 1
       THEN /\ waits' = Append(waits, wait)
            /\ totalWaits' = totalWaits + Metered(1)
            /\ attempt' = attempt + 1
            /\ pc' = "api"
            /\ notifications' =
                 Append(notifications, <<result.current_stage, "retrying", 0>>)
            /\ UNCHANGED <<exc, opLog>>
       ELSE /\ exc' = e
            /\ opLog' = Append(opLog, <<"raise", result.current_stage>>)
            /\ pc' = "except"
            /\ UNCHANGED <<waits, totalWaits, attempt, notifications>>
  /\ UNCHANGED <<figma_url, result, callbackRaised, inputs, max_tokens, returned,
                 httpRequests, raw>>

\* What both except clauses of generate do with a caught exception e after
\* computing the wait: sleep and continue, or re-raise on the last attempt.
\* A loop that sleeps after every failure, the last one included.
RetryOrRaise_sleepsBeforeRaise(e, wait) ==
  /\ apiCalls' = apiCalls + 1
  /\ totalCalls' = totalCalls + Metered(1)
  /\ attemptLog' = Append(attemptLog, e)
  /\ waits' = Append(waits, wait)
  /\ totalWaits' = totalWaits + Metered(1)
  /\ IF attempt < _MAX_RETRIES - 1
       THEN /\ attempt' = attempt + 1
            /\ pc' = "api"
            /\ UNCHANGED <<exc, opLog>>
       ELSE /\ exc' = e
            /\ opLog' = Append(opLog, <<"raise", result.current_stage>>)
            /\ pc' = "except"
            /\ UNCHANGED attempt
  /\ UNCHANGED <<figma_url, result, notifications, callbackRaised, inputs, max_tokens,
                 returned, httpRequests, raw>>

RetryOrRaise(e, wait) ==
  /\ apiCalls' = apiCalls + 1
  /\ totalCalls' = totalCalls + Metered(1)
  /\ attemptLog' = Append(attemptLog, e)
  /\ IF attempt < _MAX_RETRIES - 1
       THEN /\ waits' = Append(waits, wait)
            /\ totalWaits' = totalWaits + Metered(1)
            /\ attempt' = attempt + 1
            /\ pc' = "api"
            /\ UNCHANGED <<exc, opLog>>
       ELSE /\ exc' = e
            /\ opLog' = Append(opLog, <<"raise", result.current_stage>>)
            /\ pc' = "except"
            /\ UNCHANGED <<waits, totalWaits, attempt>>
  /\ UNCHANGED <<figma_url, result, notifications, callbackRaised, inputs, max_tokens,
                 returned, httpRequests, raw>>

\* A rate-limit clause that sleeps the base delay whatever the attempt.
ApiRateLimitError_constantWait ==
  /\ pc = "api"
  /\ UNCHANGED fnVars
  /\ \E m \in world.messages : RetryOrRaise(Exc("RateLimitError", m), _BACKOFF_BASE)

\* A rate-limit clause whose exponent is the number of rate-limit failures
\* met before, not the attempt.
ApiRateLimitError_countsOwnFailures ==
  /\ pc = "api"
  /\ UNCHANGED fnVars
  /\ \E m \in world.messages :
       RetryOrRaise(Exc("RateLimitError", m),
                    _BACKOFF_BASE * (2 ^ Cardinality({i \in 1..Len(attemptLog) :
                                         attemptLog[i].kind = "RateLimitError"})))

\* except anthropic.RateLimitError
ApiRateLimitError ==
  /\ pc = "api"
  /\ UNCHANGED fnVars
  /\ \E m \in world.messages :
       RetryOrRaise(Exc("RateLimitError", m), _BACKOFF_BASE * (2 ^ attempt))

\* An except clause for APIError that backs off like the rate-limit one.
ApiAPIError_exponentialWait ==
  /\ pc = "api"
  /\ UNCHANGED fnVars
  /\ \E e \in world.apiErrors : RetryOrRaise(e, _BACKOFF_BASE * (2 ^ attempt))

\* except anthropic.APIError
ApiAPIError ==
  /\ pc = "api"
  /\ UNCHANGED fnVars
  /\ \E e \in world.apiErrors : RetryOrRaise(e, _BACKOFF_BASE)

\* Any exception that is not an anthropic.APIError is caught by neither
\* clause and leaves generate at once.
ApiOtherError ==
  /\ pc = "api"
  /\ UNCHANGED fnVars
  /\ apiCalls' = apiCalls + 1
  /\ totalCalls' = totalCalls + Metered(1)
  /\ \E m \in world.messages :
       /\ exc' = Exc("OtherError", m)
       /\ attemptLog' = Append(attemptLog, Exc("OtherError", m))
  /\ opLog' = Append(opLog, <<"raise", result.current_stage>>)
  /\ pc' = "except"
  /\ UNCHANGED <<figma_url, result, notifications, callbackRaised, inputs, max_tokens,
                 returned, httpRequests, attempt, waits, totalWaits, raw>>

\* A run that checks what the stage returned and stops on an empty value.
NotifyPost_haltsOnEmpty ==
  /\ pc = "notify_post"
  /\ UNCHANGED fnVars
  /\ LET s == result.current_stage
     IN  IF Truthy(result[Artifact(s)])
           THEN _notify(PostStage(s), PostMessage(s), PostProgress(s),
                        IF s = "reviewer" THEN "set_done" ELSE "advance")
           ELSE /\ pc' = "except"
                /\ exc' = Exc("ValueError", "empty artifact")
                /\ UNCHANGED <<notifications, callbackRaised>>
  /\ UNCHANGED <<figma_url, result, opLog, inputs, max_tokens, returned, httpRequests, genVars>>

\* The notification that closes a block; after the reviewer it is the done
\* notification.
NotifyPost ==
  /\ pc = "notify_post"
  /\ UNCHANGED fnVars
  /\ LET s == result.current_stage
     IN  _notify(PostStage(s), PostMessage(s), PostProgress(s),
                 IF s = "reviewer" THEN "set_done" ELSE "advance")
  /\ UNCHANGED <<figma_url, result, opLog, inputs, max_tokens, returned, httpRequests, genVars>>

\* A return that leaves current_stage at the reviewer.
SetDone_forgotten ==
  /\ pc = "set_done"
  /\ UNCHANGED fnVars
  /\ pc' = "returned"
  /\ UNCHANGED <<figma_url, result, exc, notifications, callbackRaised, opLog,
                 inputs, max_tokens, returned, httpRequests, genVars>>

\* result.current_stage = "done"; return result
SetDone ==
  /\ pc = "set_done"
  /\ UNCHANGED fnVars
  /\ result' = [result EXCEPT !.current_stage = "done"]
  /\ pc' = "returned"
  /\ UNCHANGED <<figma_url, exc, notifications, callbackRaised, opLog, inputs, max_tokens,
                 returned, httpRequests, genVars>>

\* A handler that records the error and lets the run go on with the next
\* block.
ExceptHandler_resume ==
  /\ pc = "except"
  /\ UNCHANGED fnVars
  /\ result.current_stage # "reviewer"
  /\ result' = [result EXCEPT !.error = ErrorText(result.current_stage, exc)]
  /\ notifications' = Append(notifications, <<"error", exc.msg, -10>>)
  /\ pc' = "advance"
  /\ UNCHANGED <<figma_url, exc, callbackRaised, opLog, inputs, max_tokens, returned,
                 httpRequests, genVars>>

\* A handler that hands back a fresh result carrying only the error.
ExceptHandler_discard ==
  /\ pc = "except"
  /\ UNCHANGED fnVars
  /\ result' = [PipelineResult EXCEPT
                  !.error = ErrorText(result.current_stage, exc),
                  !.current_stage = result.current_stage]
  /\ notifications' = Append(notifications, <<"error", exc.msg, -10>>)
  /\ pc' = "returned"
  /\ UNCHANGED <<figma_url, exc, callbackRaised, opLog, inputs, max_tokens, returned,
                 httpRequests, genVars>>

\* A handler that runs the failed stage's operation again.
ExceptHandler_retryStage ==
  /\ pc = "except"
  /\ UNCHANGED fnVars
  /\ pc' = "op"
  /\ UNCHANGED <<figma_url, result, exc, notifications, callbackRaised, opLog,
                 inputs, max_tokens, returned, httpRequests, genVars>>

\* A handler that also marks the run as done.
ExceptHandler_marksDone ==
  /\ pc = "except"
  /\ UNCHANGED fnVars
  /\ result' = [result EXCEPT !.error = ErrorText(result.current_stage, exc),
                              !.current_stage = "done"]
  /\ notifications' = Append(notifications, <<"error", exc.msg, -10>>)
  /\ pc' = "returned"
  /\ UNCHANGED <<figma_url, exc, callbackRaised, opLog, inputs, max_tokens, returned,
                 httpRequests, genVars>>

\* except Exception as e: the error is recorded and the error notification
\* sent; run then returns, unless on_progress raises again, which nothing
\* catches.
ExceptHandler ==
  /\ pc = "except"
  /\ UNCHANGED fnVars
  /\ result' = [result EXCEPT !.error = ErrorText(result.current_stage, exc)]
  /\ notifications' = Append(notifications, <<"error", exc.msg, -10>>)
  /\ \/ /\ pc' = "returned"
        /\ UNCHANGED <<exc, callbackRaised>>
     \/ \E m \in world.messages :
          /\ pc' = "propagated"
          /\ exc' = Exc("CallbackError", m)
          /\ callbackRaised' = TRUE
  /\ UNCHANGED <<figma_url, opLog, inputs, max_tokens, returned, httpRequests, genVars>>

Next ==
  \/ EnterStage
  \/ NotifyPre
  \/ FetchParseUrl
  \/ FetchRequest
  \/ AgentCall
  \/ ApiReturns
  \/ ApiRateLimitError
  \/ ApiAPIError
  \/ ApiOtherError
  \/ NotifyPost
  \/ SetDone
  \/ ExceptHandler

Spec == Init /\ [][Next]_vars

(***************************************************************************)
(* A call of _extract_json on its own.                                     *)
(***************************************************************************)
(***************************************************************************)
(* Two callers run the same Pipeline, one executing at a time.  A frame is *)
(* what a run holds in the locals of run and generate (and the history     *)
(* kept of it); the Pipeline object, its clients and its agents are shared *)
(* and nothing assigns to their attributes after construction.  The        *)
(* executing run gives way where it blocks on the network (the request to  *)
(* the design API, messages.create, the sleep between attempts) and when   *)
(* it has ended.                                                           *)
(***************************************************************************)
Frame ==
  [pc |-> pc, figma_url |-> figma_url, result |-> result, exc |-> exc,
   notifications |-> notifications, callbackRaised |-> callbackRaised,
   opLog |-> opLog, inputs |-> inputs, max_tokens |-> max_tokens,
   returned |-> returned, httpRequests |-> httpRequests, attempt |-> attempt,
   attemptLog |-> attemptLog, apiCalls |-> apiCalls, waits |-> waits, raw |-> raw,
   totalCalls |-> totalCalls, totalWaits |-> totalWaits]

\* The frame of a run that has not started.
InitialFrame(u) ==
  [pc |-> "advance", figma_url |-> u, result |-> PipelineResult, exc |-> NoExc,
   notifications |-> <<>>, callbackRaised |-> FALSE, opLog |-> <<>>,
   inputs |-> [s \in AgentStages |-> <<>>],
   max_tokens |-> [s \in AgentStages |-> <<>>],
   returned |-> [s \in OpStages |-> <<>>], httpRequests |-> 0, attempt |-> 0,
   attemptLog |-> <<>>, apiCalls |-> 0, waits |-> <<>>, raw |-> <<>>,
   totalCalls |-> 0, totalWaits |-> 0]

SuspensionPoints == {"http", "api"}

\* The answers offered while two runs interleave.
TwoRunWorld ==
  [texts |-> {<<"Here is the result:", "\n", FENCE, "json", "\n",
                "{", "a:", "1", "}", "\n", FENCE>>,
              <<"I cannot help with that">>},
   messages |-> {"e1"},
   apiErrors |-> {Exc("APIError", "e1")},
   docNames |-> {"Landing"},
   metered |-> FALSE]

\* The first caller passes the URL that names a node, the second caller
\* another URL.
InitTwoRuns ==
  /\ pc = "advance"
  /\ figma_url \in {u \in Urls : parse_url(u).node_id # None}
  /\ PipelineIdle
  /\ JsonIdle
  /\ ExtractIdle
  /\ UrlIdle
  /\ PromptIdle
  /\ LauncherIdle
  /\ world = TwoRunWorld
  /\ active = 1
  /\ \E u \in Urls \ {figma_url} : parked = <<InitialFrame(u)>>

\* A Pipeline that keeps the result of the run in an attribute of its own.
Switch_sharedResult ==
  /\ parked # <<>>
  /\ pc \in SuspensionPoints \cup {"returned", "propagated"}
  /\ parked[1].pc \notin {"returned", "propagated"}
  /\ active' = 3 - active
  /\ parked' = <<[Frame EXCEPT !.result = parked[1].result]>>
  /\ pc' = parked[1].pc
  /\ figma_url' = parked[1].figma_url
  /\ result' = result
  /\ exc' = parked[1].exc
  /\ notifications' = parked[1].notifications
  /\ callbackRaised' = parked[1].callbackRaised
  /\ opLog' = parked[1].opLog
  /\ inputs' = parked[1].inputs
  /\ max_tokens' = parked[1].max_tokens
  /\ returned' = parked[1].returned
  /\ httpRequests' = parked[1].httpRequests
  /\ attempt' = parked[1].attempt
  /\ attemptLog' = parked[1].attemptLog
  /\ apiCalls' = parked[1].apiCalls
  /\ waits' = parked[1].waits
  /\ totalCalls' = parked[1].totalCalls
  /\ totalWaits' = parked[1].totalWaits
  /\ raw' = parked[1].raw
  /\ UNCHANGED <<world, jsonVars, extractVars, urlVars, promptVars, launcherVars>>

\* The executing run blocks or has ended and the other run goes on.
Switch ==
  /\ parked # <<>>
  /\ pc \in SuspensionPoints \cup {"returned", "propagated"}
  /\ parked[1].pc \notin {"returned", "propagated"}
  /\ active' = 3 - active
  /\ parked' = <<Frame>>
  /\ pc' = parked[1].pc
  /\ figma_url' = parked[1].figma_url
  /\ result' = parked[1].result
  /\ exc' = parked[1].exc
  /\ notifications' = parked[1].notifications
  /\ callbackRaised' = parked[1].callbackRaised
  /\ opLog' = parked[1].opLog
  /\ inputs' = parked[1].inputs
  /\ max_tokens' = parked[1].max_tokens
  /\ returned' = parked[1].returned
  /\ httpRequests' = parked[1].httpRequests
  /\ attempt' = parked[1].attempt
  /\ attemptLog' = parked[1].attemptLog
  /\ apiCalls' = parked[1].apiCalls
  /\ waits' = parked[1].waits
  /\ totalCalls' = parked[1].totalCalls
  /\ totalWaits' = parked[1].totalWaits
  /\ raw' = parked[1].raw
  /\ UNCHANGED <<world, jsonVars, extractVars, urlVars, promptVars, launcherVars>>

NextTwoRuns ==
  \/ Next
  \/ Switch

SpecTwoRuns == InitTwoRuns /\ [][NextTwoRuns]_vars

(***************************************************************************)
(* A run whose calls and sleeps are totalled, with the answers of the      *)
(* two-run world.  Every external call returns or raises: a step that is   *)
(* enabled is taken.                                                       *)
(***************************************************************************)
MeteredWorld == [TwoRunWorld EXCEPT !.metered = TRUE]

InitMetered ==
  /\ pc = "advance"
  /\ figma_url \in Urls
  /\ PipelineIdle
  /\ JsonIdle
  /\ ExtractIdle
  /\ UrlIdle
  /\ PromptIdle
  /\ LauncherIdle
  /\ world = MeteredWorld
  /\ active = 1
  /\ parked = <<>>

SpecMetered == InitMetered /\ [][Next]_vars /\ WF_vars(Next)

pipelineVars ==
  <<figma_url, result, exc, notifications, callbackRaised, opLog, inputs, max_tokens,
    returned, httpRequests, genVars>>

InitJson ==
  /\ pc = "extract_json"
  /\ figma_url = None
  /\ PipelineIdle
  /\ ExtractIdle
  /\ UrlIdle
  /\ PromptIdle
  /\ OneRun
  /\ LauncherIdle
  /\ extracted = <<>>
  /\ \/ /\ origin = <<>>
        /\ text \in TokenTexts
     \/ \E prose \in Proses, opening \in FenceOpenings, o \in Objects :
          /\ origin = <<prose, opening, o>>
          /\ text = Fenced(prose, opening, o)

\* The call: the parsed value is returned, or json.loads raises.
ExtractJson ==
  /\ pc = "extract_json"
  /\ extracted' = <<_extract_json(text)>>
  /\ pc' = "extract_json_done"
  /\ UNCHANGED <<text, origin, pipelineVars, extractVars, urlVars, promptVars, runVars, launcherVars>>

NextJson == ExtractJson

SpecJson == InitJson /\ [][NextJson]_vars

(***************************************************************************)
(* The calls of _extract_colors, _extract_fonts and _extract_components    *)
(* on a document, in the order in which fetch_design_data makes them;      *)
(* after the last, the same document may be fetched again.  The order in   *)
(* which sorted receives the elements of the set is any.                   *)
(***************************************************************************)
InitExtract ==
  /\ pc = "extract_colors"
  /\ figma_url = None
  /\ PipelineIdle
  /\ JsonIdle
  /\ UrlIdle
  /\ PromptIdle
  /\ OneRun
  /\ LauncherIdle
  /\ document \in Documents
  /\ colors = <<>>
  /\ fonts = <<>>
  /\ components = <<>>

\* A call that returns the set as it is iterated.
ExtractColors_unsorted ==
  /\ pc = "extract_colors"
  /\ \E q \in Listings(CollectColors(document)) : colors' = <<q>>
  /\ pc' = "extract_fonts"
  /\ UNCHANGED <<document, fonts, components, pipelineVars, jsonVars, urlVars, promptVars, runVars, launcherVars>>

ExtractColors ==
  /\ pc = "extract_colors"
  /\ \E q \in Listings(CollectColors(document)) : colors' = <<sorted(q, "str")>>
  /\ pc' = "extract_fonts"
  /\ UNCHANGED <<document, fonts, components, pipelineVars, jsonVars, urlVars, promptVars, runVars, launcherVars>>

ExtractFonts ==
  /\ pc = "extract_fonts"
  /\ \E q \in Listings(CollectFonts(document)) :
       LET s == sorted(q, "tuple")
       IN  fonts' = <<[i \in 1..Len(s) |-> FontRecord(s[i])]>>
  /\ pc' = "extract_components"
  /\ UNCHANGED <<document, colors, components, pipelineVars, jsonVars, urlVars, promptVars, runVars, launcherVars>>

ExtractComponents ==
  /\ pc = "extract_components"
  /\ components' = <<_extract_components(document, 0)>>
  /\ pc' = "extract_colors"
  /\ UNCHANGED <<document, colors, fonts, pipelineVars, jsonVars, urlVars, promptVars, runVars, launcherVars>>

NextExtract ==
  \/ ExtractColors
  \/ ExtractFonts
  \/ ExtractComponents

SpecExtract == InitExtract /\ [][NextExtract]_vars

(***************************************************************************)
(* One call of FigmaClient.parse_url on a URL.                             *)
(***************************************************************************)
InitUrl ==
  /\ pc = "parse_url"
  /\ figma_url = None
  /\ PipelineIdle
  /\ JsonIdle
  /\ ExtractIdle
  /\ PromptIdle
  /\ OneRun
  /\ LauncherIdle
  /\ url \in UrlTexts
  /\ urlResult = <<>>

\* The call: the pair is returned, or ValueError is raised.
ParseUrl ==
  /\ pc = "parse_url"
  /\ urlResult' = <<parse_url(url)>>
  /\ pc' = "parse_url_done"
  /\ UNCHANGED <<url, pipelineVars, jsonVars, extractVars, promptVars, runVars, launcherVars>>

NextUrl == ParseUrl

SpecUrl == InitUrl /\ [][NextUrl]_vars

(***************************************************************************)
(* One call of DesignerAgent._build_prompt on a design data.               *)
(***************************************************************************)
InitPrompt ==
  /\ pc = "build_prompt"
  /\ figma_url = None
  /\ PipelineIdle
  /\ JsonIdle
  /\ ExtractIdle
  /\ UrlIdle
  /\ OneRun
  /\ LauncherIdle
  /\ figma_data \in DesignDatas
  /\ user_message = <<>>

BuildPrompt ==
  /\ pc = "build_prompt"
  /\ user_message' = <<_build_prompt(figma_data)>>
  /\ pc' = "build_prompt_done"
  /\ UNCHANGED <<figma_data, pipelineVars, jsonVars, extractVars, urlVars, runVars, launcherVars>>

NextPrompt == BuildPrompt

SpecPrompt == InitPrompt /\ [][NextPrompt]_vars

(***************************************************************************)
(* launcher.py: main checks its argument and the claude CLI, runs the four *)
(* agents as subprocesses one after the other, and archives the output.    *)
(* The source is the sequence of the pieces of sys.argv[1]: "http", path   *)
(* names, commas and blanks.                                               *)
(***************************************************************************)
AGENTS == <<"designer", "architect", "coder", "reviewer">>

\* The prompts run_pipeline gives the agents after the designer.
AgentPrompt(name) ==
  CASE name = "architect" -> <<"read design-analysis.md, write architecture.md">>
    [] name = "coder" -> <<"read architecture.md and design-analysis.md, write output/">>
    [] name = "reviewer" -> <<"review output/ against design-analysis.md, write review.md">>

\* The file each agent is asked to write.
Product(name) ==
  CASE name = "designer" -> "design-analysis.md"
    [] name = "architect" -> "architecture.md"
    [] name = "coder" -> "output/index.html"
    [] name = "reviewer" -> "review.md"

Cwd == "/cwd"

\* os.path.abspath: the empty path is the working directory itself.
abspath(path) == IF path = "" THEN Cwd ELSE Cwd \o "/" \o path

ExistingPaths == {Cwd, abspath("top.png"), abspath("about.png")}

Sources ==
  { <<"http", "s://www.figma.com/design/K1">>,
    <<"http", "-mock.png">>,
    <<"top.png">>,
    <<"missing.png">>,
    <<"top.png", ",", " ", "about.png">>,
    <<"missing.png", ",", "top.png", " ">>,
    <<"missing.png", ",">> }

Argvs == {<<>>} \cup {<<src>> : src \in Sources}

\* source.split(",")
RECURSIVE SplitComma(_)
SplitComma(src) ==
  IF \A i \in 1..Len(src) : src[i] # ","
    THEN <<src>>
    ELSE LET i == CHOOSE k \in 1..Len(src) :
                    src[k] = "," /\ \A j \in 1..(k - 1) : src[j] # ","
         IN  <<SubSeq(src, 1, i - 1)>> \o SplitComma(SubSeq(src, i + 1, Len(src)))

\* p.strip()
RECURSIVE strip(_)
strip(piece) ==
  IF piece = <<>> THEN piece
  ELSE IF Head(piece) = " " THEN strip(Tail(piece))
  ELSE IF piece[Len(piece)] = " " THEN strip(SubSeq(piece, 1, Len(piece) - 1))
  ELSE piece

\* build_designer_prompt: the prompt, or sys.exit(1) when the source is
\* not a URL and names no existing path.
build_designer_prompt(src) ==
  IF src # <<>> /\ Head(src) = "http"
    THEN [exit |-> FALSE, prompt |-> <<"analyse the Figma URL", Join(src)>>]
    ELSE LET pieces == SplitComma(src)
             paths == [i \in 1..Len(pieces) |-> abspath(Join(strip(pieces[i])))]
             abs_paths == SelectSeq(paths, LAMBDA ap : ap \in ExistingPaths)
         IN  IF abs_paths = <<>>
               THEN [exit |-> TRUE, prompt |-> <<>>]
               ELSE [exit |-> FALSE, prompt |-> <<"analyse the image files">> \o abs_paths]

\* How the subprocess of an agent may end: it exits with a return code, or
\* subprocess.run gives up after the timeout.
Exit(code, out, err) == [kind |-> "exit", returncode |-> code, stdout |-> out, stderr |-> err]

TimedOut == [kind |-> "timeout", returncode |-> None, stdout |-> "", stderr |-> ""]

Outcomes ==
  {Exit(0, "out", ""), TimedOut}
    \cup {Exit(code, out, err) : code \in {1, 2}, out \in {"out"}, err \in {"", "boom"}}

\* A run_agent that raises on a timeout only.
run_agent_raises_timeoutOnly(name, o) ==
  IF o.kind = "timeout"
    THEN Exc("TimeoutExpired", "Command timed out after 300 seconds")
    ELSE NoExc

\* The exception run_agent raises for the outcome o of agent name, NoExc
\* when it returns result.stdout.
run_agent_raises(name, o) ==
  IF o.kind = "timeout"
    THEN Exc("TimeoutExpired", "Command timed out after 300 seconds")
  ELSE IF o.returncode # 0
    THEN Exc("RuntimeError",
             "Agent '" \o name \o "' failed:\n"
               \o (IF o.stderr # "" THEN o.stderr ELSE o.stdout))
  ELSE NoExc

InitLauncher ==
  /\ pc = "main"
  /\ figma_url = None
  /\ PipelineIdle
  /\ JsonIdle
  /\ ExtractIdle
  /\ UrlIdle
  /\ PromptIdle
  /\ OneRun
  /\ argv \in Argvs
  /\ agent = 0
  /\ started = <<>>
  /\ exits = <<>>
  /\ results = <<>>
  /\ project_files \in {{}, {"review.md"}}
  /\ zip_data = None
  /\ exports = <<>>
  /\ launcherCalls = <<>>
  /\ raisedExc = NoExc
  /\ exit_status = None

launcherRest == <<pipelineVars, jsonVars, extractVars, urlVars, promptVars, runVars>>

\* sys.exit(status)
SysExit(status) ==
  /\ pc' = "exited"
  /\ exit_status' = status

\* main up to the try block: the usage check and the look-up of the CLI.
MainChecks ==
  /\ pc = "main"
  /\ IF Len(argv) < 1
       THEN SysExit(1)
       ELSE \E found \in BOOLEAN :
              IF found THEN pc' = "run_pipeline" /\ UNCHANGED exit_status
                       ELSE SysExit(1)
  /\ UNCHANGED <<argv, agent, started, exits, results, project_files, zip_data, exports,
                 launcherCalls, raisedExc, launcherRest>>

\* run_pipeline builds the prompt of the designer; sys.exit(1) there is a
\* SystemExit, which except Exception does not catch.
BuildDesignerPrompt ==
  /\ pc = "run_pipeline"
  /\ IF build_designer_prompt(argv[1]).exit
       THEN SysExit(1) /\ UNCHANGED agent
       ELSE pc' = "run_agent" /\ agent' = 1 /\ UNCHANGED exit_status
  /\ UNCHANGED <<argv, started, exits, results, project_files, zip_data, exports,
                 launcherCalls, raisedExc, launcherRest>>

\* run_agent starts the subprocess of the next agent and waits for it.
StartAgent ==
  /\ pc = "run_agent"
  /\ LET name == AGENTS[agent]
         prompt == IF agent = 1 THEN build_designer_prompt(argv[1]).prompt
                   ELSE AgentPrompt(name)
     IN  started' = Append(started, [agent_name |-> name, prompt |-> prompt])
  /\ pc' = "subprocess"
  /\ UNCHANGED <<argv, agent, exits, results, project_files, zip_data, exports,
                 launcherCalls, raisedExc, exit_status, launcherRest>>

\* The subprocess ends, having written its file or not.  run_agent returns
\* its stdout and run_pipeline goes on to the next agent, or run_agent
\* raises, main prints the error and exits with status 1.
AgentEnds ==
  /\ pc = "subprocess"
  /\ \E o \in Outcomes, written \in SUBSET {Product(AGENTS[agent])} :
       LET name == AGENTS[agent]
           e == run_agent_raises(name, o)
       IN  /\ exits' = Append(exits, o)
           /\ project_files' = project_files \cup written
           /\ IF e = NoExc
                THEN /\ results' = Append(results, <<name, o.stdout>>)
                     /\ IF agent < Len(AGENTS)
                          THEN pc' = "run_agent" /\ agent' = agent + 1
                          ELSE pc' = "build_zip" /\ UNCHANGED agent
                     /\ UNCHANGED <<raisedExc, exit_status>>
                ELSE /\ raisedExc' = e
                     /\ SysExit(1)
                     /\ UNCHANGED <<results, agent>>
  /\ UNCHANGED <<argv, started, zip_data, exports, launcherCalls, launcherRest>>

\* zip_data = build_zip(): None when there is no file to archive.
BuildZip ==
  /\ pc = "build_zip"
  /\ launcherCalls' = Append(launcherCalls, "build_zip")
  /\ zip_data' = (IF project_files = {} THEN None ELSE project_files)
  /\ pc' = (IF project_files = {} THEN "summary" ELSE "save_to_exports")
  /\ UNCHANGED <<argv, agent, started, exits, results, project_files, exports,
                 raisedExc, exit_status, launcherRest>>

\* export_path = save_to_exports(zip_data)
SaveToExports ==
  /\ pc = "save_to_exports"
  /\ launcherCalls' = Append(launcherCalls, "save_to_exports")
  /\ exports' = Append(exports, zip_data)
  /\ pc' = "summary"
  /\ UNCHANGED <<argv, agent, started, exits, results, project_files, zip_data,
                 raisedExc, exit_status, launcherRest>>

\* The summary is printed and main returns.
Summary ==
  /\ pc = "summary"
  /\ SysExit(0)
  /\ UNCHANGED <<argv, agent, started, exits, results, project_files, zip_data, exports,
                 launcherCalls, raisedExc, launcherRest>>

NextLauncher ==
  \/ MainChecks
  \/ BuildDesignerPrompt
  \/ StartAgent
  \/ AgentEnds
  \/ BuildZip
  \/ SaveToExports
  \/ Summary

SpecLauncher == InitLauncher /\ [][NextLauncher]_vars

(***************************************************************************)
(* Properties.                                                             *)
(***************************************************************************)
Last(q) == q[Len(q)]

Ended == pc \in {"returned", "propagated"}

Called(s) == \E i \in 1..Len(opLog) : opLog[i] = <<"call", s>>

Returned(s) == \E i \in 1..Len(opLog) : opLog[i] = <<"return", s>>

Raised(s) == \E i \in 1..Len(opLog) : opLog[i] = <<"raise", s>>

\* The stage operations are called one after the other in the order of
\* STAGES, each after the one before it has returned.
OpsInOrder ==
  \A i \in 1..Len(opLog) :
    IF i % 2 = 1
      THEN /\ (i + 1) \div 2 <= 5
           /\ opLog[i] = <<"call", STAGES[(i + 1) \div 2]>>
           /\ i > 1 => opLog[i - 1] = <<"return", STAGES[(i - 1) \div 2]>>
      ELSE opLog[i] \in {<<"return", STAGES[i \div 2]>>, <<"raise", STAGES[i \div 2]>>}

\* A stage is current only once every stage before it has returned, and its
\* own operation is called only while it is current.
StageAfterPrevious ==
  /\ result.current_stage \in {""} \cup {STAGES[i] : i \in 1..Len(STAGES)}
  /\ \A i \in 2..Len(STAGES) :
       result.current_stage = STAGES[i] => Returned(STAGES[i - 1])
  /\ \A s \in OpStages : Called(s) =>
       /\ result.current_stage # ""
       /\ StageIndex(s) <= StageIndex(result.current_stage)
       /\ ~Returned(s) => result.current_stage = s

\* current_stage changes only to the next name of STAGES, starting at fetch.
StageStepsInOrder ==
  result'.current_stage # result.current_stage =>
    /\ result.current_stage # "done"
    /\ result'.current_stage =
         (IF result.current_stage = "" THEN "fetch"
          ELSE STAGES[StageIndex(result.current_stage) + 1])

\* C1: in every run the stage operations are called in the order fetch,
\* designer, architect, coder, reviewer, each only after the previous one
\* has returned, and current_stage runs through fetch, designer, architect,
\* coder, reviewer, done in that order, skipping none.
C1_StagesInOrder ==
  [](OpsInOrder /\ StageAfterPrevious) /\ [][StageStepsInOrder]_vars

C1_Witness ==
  /\ pc = "returned"
  /\ result.current_stage = "done"
  /\ Len(opLog) = 10
  /\ \A s \in OpStages : Returned(s)

\* C2: once the operation of a stage has raised, no operation of a later
\* stage is called in that run: the raise is the last stage-operation event
\* and the run is in its error path, which it never leaves.
C2_RaiseIsAbsorbing ==
  \A i \in 1..Len(opLog) :
    opLog[i][1] = "raise" =>
      /\ i = Len(opLog)
      /\ pc \in {"except", "returned", "propagated"}
      /\ result.current_stage = opLog[i][2]

C2_Witness ==
  /\ pc = "returned"
  /\ Raised("architect")
  /\ Len(opLog) = 6

\* The stage whose operation raised in this run.
RaisedStage == Last(opLog)[2]

StageRaised == opLog # <<>> /\ Last(opLog)[1] = "raise"

\* C3: when the operation of stage k raised, the returned result holds for
\* every stage before k exactly what that stage returned and the empty
\* default for stage k and every stage after it.
C3_PartialResults ==
  (pc = "returned" /\ StageRaised) =>
    \A t \in OpStages :
      IF StageIndex(t) < StageIndex(RaisedStage)
        THEN returned[t] = <<result[Artifact(t)]>>
        ELSE result[Artifact(t)] = EmptyDict /\ returned[t] = <<>>

C3_Witness ==
  /\ pc = "returned"
  /\ StageRaised
  /\ RaisedStage = "architect"
  /\ result.design_analysis = Obj({<<"a", Num(1)>>})
  /\ result.architecture = EmptyDict

\* C4: when the operation of a stage raised with message m, the returned
\* result has error "[<stage>] m" for that stage and current_stage is that
\* stage.
C4_ErrorNamesStage ==
  (pc = "returned" /\ StageRaised) =>
    /\ exc.kind # "CallbackError"
    /\ result.error = "[" \o RaisedStage \o "] " \o exc.msg
    /\ result.current_stage = RaisedStage

C4_Witness ==
  /\ pc = "returned"
  /\ StageRaised
  /\ exc = Exc("APIError", "e2")
  /\ result.error = "[coder] e2"
  /\ result.current_stage = "coder"

IsDone(n) == n[1] = "done" /\ n[3] = 10

IsError(n) == n[1] = "error" /\ n[3] = -10

Terminal(n) == IsDone(n) \/ IsError(n)

NotifIdx == 1..Len(notifications)

\* C5 as stated: every run ends its notifications with exactly one terminal
\* notification, done or error, nothing follows it, and no run emits both.
C5_OneTerminalNotification ==
  /\ \A i \in NotifIdx : Terminal(notifications[i]) => i = Len(notifications)
  /\ ~(\E i, j \in NotifIdx : IsDone(notifications[i]) /\ IsError(notifications[j]))
  /\ Ended => notifications # <<>> /\ Terminal(Last(notifications))

\* C5 (amended): every run ends its notifications with a terminal one, done
\* or error; a run emits at most one of each and nothing after an error
\* notification; done is followed only by the error notification of a
\* callback that raised on it, so a run whose callback never raises emits
\* exactly one terminal notification, as its last.
C5_TerminalNotification ==
  /\ \A i \in NotifIdx : IsError(notifications[i]) => i = Len(notifications)
  /\ \A i \in NotifIdx : IsDone(notifications[i]) =>
       \/ i = Len(notifications)
       \/ /\ i = Len(notifications) - 1
          /\ IsError(Last(notifications))
          /\ callbackRaised
          /\ result.error \in {"[reviewer] " \o m : m \in Messages}
  /\ \A i \in NotifIdx : notifications[i][1] \in {"done", "error"} <=> Terminal(notifications[i])
  /\ Ended => notifications # <<>> /\ Terminal(Last(notifications))
  /\ ~callbackRaised =>
       \A i \in NotifIdx : Terminal(notifications[i]) => i = Len(notifications)

C5_Witness ==
  /\ pc = "returned"
  /\ ~callbackRaised
  /\ Len(notifications) = 10
  /\ Last(notifications) = <<"done", "all stages complete", 10>>

\* C6: the operation of a stage is called only after a notification under
\* that stage's name with progress in [0,1]; and a notification with
\* progress 1.0 is emitted if and only if the reviewer's operation returned
\* (it is the step that follows the return).
C6_NotifiedBeforeStage ==
  /\ \A s \in OpStages : Called(s) =>
       \E i \in NotifIdx :
         /\ notifications[i][1] = s
         /\ 0 <= notifications[i][3] /\ notifications[i][3] <= 10
  /\ (\E i \in NotifIdx : notifications[i][3] = 10) => Returned("reviewer")
  /\ (Returned("reviewer") /\ pc # "notify_post") =>
       \E i \in NotifIdx : notifications[i][3] = 10

C6_Witness ==
  /\ Returned("reviewer")
  /\ pc = "set_done"
  /\ \E i \in NotifIdx : notifications[i] = <<"reviewer", "reviewer in progress", 8>>
  /\ Last(notifications)[3] = 10

\* The values bool() takes for false.
FalsyValues == {EmptyDict, Num(0), Str(""), Null}

\* C7: in every reachable state of the result, success is true exactly when
\* error is None and the review artifact is not empty.
C7_SuccessDefinition ==
  success(result) <=> (result.error = None /\ result.review \notin FalsyValues)

C7_Witness ==
  /\ success(result)
  /\ result.review = Obj({<<"files", Num(2)>>})
  /\ pc = "returned"

NonEmptyRecord(v) == v.kind = "object" /\ v.members # {}

AllReturnedNonEmpty ==
  \A s \in OpStages : returned[s] # <<>> /\ NonEmptyRecord(returned[s][1])

HappyResult ==
  /\ pc = "returned"
  /\ result.error = None
  /\ \A s \in OpStages : result[Artifact(s)] = returned[s][1]
  /\ \A f \in ArtifactFields : result[f] # EmptyDict
  /\ result.current_stage = "done"
  /\ success(result)
  /\ IsDone(Last(notifications))

Transient == {"RateLimitError", "APIError"}

\* The kinds the two except clauses of generate catch.
Caught == {"RateLimitError"} \cup {e.kind : e \in APIErrors}

AllTransient == \A i \in 1..Len(attemptLog) : attemptLog[i].kind \in Transient

\* C9: a generate call never calls the API a fourth time; when every
\* attempt fails with a rate-limit or generic API error, the API has been
\* called exactly 3 times when the failure leaves generate, the failure
\* that leaves is the third attempt's, and a transient failure leaves
\* generate in no other case.
C9_ThreeAttempts ==
  /\ apiCalls <= 3
  /\ attempt <= 2
  /\ (Len(attemptLog) = 3 /\ AllTransient) =>
       /\ apiCalls = 3
       /\ pc \in {"except", "returned", "propagated"}
       /\ Last(opLog) = <<"raise", result.current_stage>>
       /\ pc = "except" => exc = attemptLog[3]
       /\ pc = "returned" =>
            /\ exc = attemptLog[3]
            /\ result.error = "[" \o result.current_stage \o "] " \o attemptLog[3].msg
  /\ (pc = "except" /\ exc.kind \in Transient) =>
       /\ apiCalls = 3
       /\ Len(attemptLog) = 3
       /\ \A i \in 1..3 : attemptLog[i].kind \in Caught

C9_Witness ==
  /\ pc = "except"
  /\ apiCalls = 3
  /\ attemptLog = <<Exc("RateLimitError", "e1"), Exc("APIError", "e1"),
                    Exc("RateLimitError", "e2")>>
  /\ exc = Exc("RateLimitError", "e2")

\* C10: after a rate-limit failure on attempt i (counted from 0) that is
\* not the last, generate sleeps _BACKOFF_BASE * 2^i before the next
\* attempt, that is 1 before the second attempt and 2 before the third;
\* after the failure of the last attempt it does not sleep.
C10_RateLimitBackoff ==
  /\ Len(waits) <= 2
  /\ Len(waits) <= Len(attemptLog)
  /\ pc = "api" => Len(waits) = Len(attemptLog) /\ attempt = Len(waits)
  /\ \A i \in 1..Len(attemptLog) :
       attemptLog[i].kind = "RateLimitError" =>
         IF i < 3
           THEN /\ Len(waits) >= i
                /\ waits[i] = _BACKOFF_BASE * (2 ^ (i - 1))
                /\ waits[i] = (IF i = 1 THEN 1 ELSE 2)
           ELSE Len(waits) = 2

C10_Witness ==
  /\ Len(attemptLog) = 3
  /\ \A i \in 1..3 : attemptLog[i].kind = "RateLimitError"
  /\ waits = <<1, 2>>
  /\ pc = "except"

\* The kinds the second except clause of generate catches.
GenericKinds == {e.kind : e \in APIErrors}

\* C11: a failure caught by the generic except clause is never a fourth
\* attempt; when it is the first or the second attempt, generate waits
\* exactly the base delay, whatever the attempt number, and makes another
\* attempt; when it is the third, generate waits no more and the failure
\* leaves generate.
C11_ConstantBackoff ==
  /\ apiCalls <= _MAX_RETRIES
  /\ Len(waits) <= _MAX_RETRIES - 1
  /\ \A i \in 1..Len(attemptLog) :
       attemptLog[i].kind \in GenericKinds =>
         /\ i <= _MAX_RETRIES
         /\ i < _MAX_RETRIES =>
              /\ Len(waits) >= i
              /\ waits[i] = _BACKOFF_BASE
              /\ (i = Len(attemptLog) /\ raw = <<>>) => (pc = "api" /\ attempt = i)
         /\ i = _MAX_RETRIES =>
              /\ Len(waits) = _MAX_RETRIES - 1
              /\ pc # "api"
              /\ Raised(result.current_stage)
              /\ pc = "except" => exc = attemptLog[i]

C11_Witness ==
  /\ pc = "except"
  /\ attemptLog = <<Exc("APIError", "e1"), Exc("APIError", "e2"), Exc("APIError", "e1")>>
  /\ waits = <<_BACKOFF_BASE, _BACKOFF_BASE>>
  /\ apiCalls = 3
  /\ exc = Exc("APIError", "e1")

\* Failures that repeating the call cannot cure: a rejected API key, and
\* an exception outside the anthropic hierarchy.
NonTransient == {"AuthenticationError", "OtherError"}

\* C12: a non-transient failure is the last attempt of its generate call:
\* no wait follows it, the API is not called after it, and it is the
\* failure that leaves generate.
C12_NonTransientPropagates ==
  \A i \in 1..Len(attemptLog) :
    attemptLog[i].kind \in NonTransient =>
      /\ i = Len(attemptLog)
      /\ apiCalls = i
      /\ Len(waits) = i - 1
      /\ pc # "api"
      /\ pc = "except" => exc = attemptLog[i]

\* The text holds a JSON object: the text between its first "{" and its
\* last "}", fences and outer whitespace removed, parses as one.
HoldsJsonObject(reply) ==
  LET cleaned == RStrip(LStrip(StripFences(reply)))
      start == find(cleaned, "{")
      end == rfind(cleaned, "}")
      parsed == json_loads(Slice(cleaned, start, end))
  IN  /\ start # -1
      /\ end # -1
      /\ parsed.ok
      /\ parsed.val.kind = "object"

\* C13: when the text the model returned holds no JSON object, the stage
\* operation raised a parse error and returned nothing, and the returning
\* call was the last API call of its generate call.
C13_MalformedResponseRaises ==
  (raw # <<>> /\ ~HoldsJsonObject(raw[1])) =>
    /\ Raised(result.current_stage)
    /\ ~Returned(result.current_stage)
    /\ apiCalls = Len(attemptLog) + 1
    /\ pc \in {"except", "returned", "propagated"}
    /\ pc = "except" => exc.kind = "JSONDecodeError"

\* The part of C13 the code keeps: a parse error ends its generate call
\* after the one call that returned, and fails the stage.
ParseErrorNotRetried ==
  (pc = "except" /\ exc.kind = "JSONDecodeError") =>
    /\ raw # <<>>
    /\ apiCalls = Len(attemptLog) + 1
    /\ Last(opLog) = <<"raise", result.current_stage>>

CallCount(s) == Cardinality({i \in 1..Len(opLog) : opLog[i] = <<"call", s>>})

EndCount(s) ==
  Cardinality({i \in 1..Len(opLog) : opLog[i] \in {<<"return", s>>, <<"raise", s>>}})

\* C14: in a run each stage operation is called at most once and ends at
\* most once, by returning or by raising; the design API is requested at
\* most once; the only repetition is of API calls inside one generate
\* call, at most 3 of them.
C14_StageCalledOnce ==
  /\ \A s \in OpStages : CallCount(s) <= 1 /\ EndCount(s) <= CallCount(s)
  /\ httpRequests <= 1
  /\ apiCalls <= _MAX_RETRIES
  /\ pc = "api" =>
       /\ CallCount(result.current_stage) = 1
       /\ EndCount(result.current_stage) = 0

C14_Witness ==
  /\ pc = "returned"
  /\ result.current_stage = "coder"
  /\ Raised("coder")
  /\ apiCalls = 3
  /\ Len(attemptLog) = 3
  /\ \A s \in {"fetch", "designer", "architect", "coder"} : CallCount(s) = 1
  /\ CallCount("reviewer") = 0

\* What the orchestrator and its caller can observe of a run.
visible ==
  <<figma_url, result, exc, notifications, callbackRaised, opLog, inputs, max_tokens,
    returned, httpRequests>>

\* What a response text does to the observable state when it is the answer
\* to the first attempt of a generate call.
FirstAttemptEffect(reply) ==
  LET s == result.current_stage
      r == _extract_json(reply)
  IN  /\ IF r.ok
            THEN /\ result' = [result EXCEPT ![Artifact(s)] = r.val]
                 /\ returned' = [returned EXCEPT ![s] = <<r.val>>]
                 /\ opLog' = Append(opLog, <<"return", s>>)
                 /\ pc' = "notify_post"
                 /\ exc' = exc
            ELSE /\ exc' = Exc("JSONDecodeError", "Expecting value")
                 /\ opLog' = Append(opLog, <<"raise", s>>)
                 /\ pc' = "except"
                 /\ UNCHANGED <<result, returned>>
      /\ UNCHANGED <<figma_url, notifications, callbackRaised, inputs, max_tokens, httpRequests>>

\* A step of a generate call is a retry, a response or a failure that
\* leaves generate.
RetryStep == pc = "api" /\ pc' = "api"

ResponseStep == pc = "api" /\ raw' # <<>>

FailureStep == pc = "api" /\ pc' = "except" /\ raw' = <<>>

\* C15: a retry changes nothing the orchestrator can observe; a response
\* has the effect it has as the answer to a first attempt, however many
\* attempts failed before it; and a transient failure leaves generate only
\* as the third failure of the call. So a run whose calls fail transiently
\* at most twice each before they are answered differs from the run with
\* the same answers to first attempts by steps that leave the observable
\* state alone.
C15_RetriesInvisible ==
  [][ /\ RetryStep => UNCHANGED visible
      /\ ResponseStep => FirstAttemptEffect(raw'[1])
      /\ (pc = "api" /\ ~RetryStep /\ ~ResponseStep) =>
           /\ FailureStep
           /\ exc'.kind \in Caught => Len(attemptLog') = _MAX_RETRIES
    ]_vars

C15_Witness ==
  /\ pc = "returned"
  /\ result.error = None
  /\ Len(attemptLog) = 2
  /\ AllTransient
  /\ waits # <<>>
  /\ raw # <<>>

\* The text json.loads is given when both braces are found.
BraceSlice(t) ==
  LET cleaned == RStrip(LStrip(StripFences(t)))
  IN  Slice(cleaned, find(cleaned, "{"), rfind(cleaned, "}"))

HasBothBraces(t) ==
  LET cleaned == RStrip(LStrip(StripFences(t)))
  IN  find(cleaned, "{") # -1 /\ rfind(cleaned, "}") # -1

\* C16: a call of _extract_json raises, and returns no value, when the
\* text without its fences and outer whitespace lacks "{" or lacks "}", and
\* when the text between its first "{" and its last "}" is not valid JSON.
C16_NoBracesRaises ==
  extracted # <<>> =>
    /\ ~HasBothBraces(text) => ~extracted[1].ok
    /\ (HasBothBraces(text) /\ ~json_loads(BraceSlice(text)).ok) => ~extracted[1].ok

\* The part of C16 the code keeps: an invalid text between the braces
\* raises, and a value returned from a text with both braces is an object.
InvalidSliceRaises ==
  (extracted # <<>> /\ HasBothBraces(text)) =>
    /\ ~json_loads(BraceSlice(text)).ok => ~extracted[1].ok
    /\ extracted[1].ok => extracted[1].val.kind = "object"

\* C17: a call of _extract_json on prose followed by the fenced
\* serialization of an object o returns o.
C17_FencedRoundTrip ==
  (extracted # <<>> /\ origin # <<>>) =>
    /\ extracted[1].ok
    /\ extracted[1].val = origin[3]

RECURSIVE HoldsFence(_)
HoldsFence(v) ==
  CASE v.kind = "string" -> FENCE \in {Chars(v.str)[i] : i \in 1..Len(Chars(v.str))}
    [] v.kind = "object" -> \E p \in v.members : HoldsFence(p[2])
    [] OTHER -> FALSE

\* The part of C17 the code keeps: o is returned when the prose holds no
\* "{" and no string of o holds a fence marker.
RoundTripWithoutMarkers ==
  (/\ extracted # <<>>
   /\ origin # <<>>
   /\ find(origin[1], "{") = -1
   /\ ~HoldsFence(origin[3])) =>
    /\ extracted[1].ok
    /\ extracted[1].val = origin[3]

\* The nodes of a tree.
RECURSIVE AllNodes(_)
AllNodes(node) ==
  {node} \cup
    (IF "children" \in node.keys
       THEN UNION {AllNodes(node.children[i]) : i \in 1..Len(node.children)}
       ELSE {})

\* The fill entries of the tree that hold a non-empty colour.
ColoredFills(doc) ==
  UNION {{f \in Range(n.fills) : "color" \in f.keys /\ f.color.keys # {}} :
           n \in {m \in AllNodes(doc) : "fills" \in m.keys}}

StrictlyAscending(q) ==
  \A i, j \in 1..Len(q) : i < j => StrLess(q[i], q[j])

\* C18: a returned colour list ascends strictly in string order, so it is
\* sorted and holds no string twice; its elements are exactly the formatted
\* colours of the coloured fills of the nodes of the document; and another
\* extraction from the same document returns the same list.
C18_ColorList ==
  /\ [](colors # <<>> =>
          /\ StrictlyAscending(colors[1])
          /\ \A i, j \in 1..Len(colors[1]) : i # j => colors[1][i] # colors[1][j]
          /\ Range(colors[1]) = {FormatColor(f.color) : f \in ColoredFills(document)})
  /\ [][colors # <<>> => colors' = colors]_vars

C18_Witness ==
  /\ colors # <<>>
  /\ Len(colors[1]) = 3
  /\ Cardinality(ColoredFills(document)) = 4
  /\ Cardinality(AllNodes(document)) = 3
  /\ colors[1][1] = <<"#", "f", "f", "0", "0", "0", "0">>
  /\ colors[1][2][1] = "r"

\* The 8-bit integers a channel of c hundredths converts to: at most one
\* away from c * 255 / 100.
ChannelInts(c) ==
  LET q == (255 * c) \div 100
  IN  {n \in (q - 1)..(q + 1) :
         /\ n \in 0..255
         /\ 100 * n - 255 * c < 100
         /\ 255 * c - 100 * n < 100}

\* The value of two lowercase hexadecimal digits.
HexValue(d1, d2) ==
  16 * ((CHOOSE i \in 1..16 : HexDigits[i] = d1) - 1)
    + ((CHOOSE i \in 1..16 : HexDigits[i] = d2) - 1)

\* e is "#rrggbb" for the channels of colour c.
IsHexOf(e, c) ==
  /\ Len(e) = 7
  /\ e[1] = "#"
  /\ \A k \in 2..7 : e[k] \in Range(HexDigits)
  /\ HexValue(e[2], e[3]) \in ChannelInts(IF "r" \in c.keys THEN c.r ELSE 0)
  /\ HexValue(e[4], e[5]) \in ChannelInts(IF "g" \in c.keys THEN c.g ELSE 0)
  /\ HexValue(e[6], e[7]) \in ChannelInts(IF "b" \in c.keys THEN c.b ELSE 0)

\* h hundredths written with two decimals.
TwoDecimals(h) ==
  Dec(h \div 100) \o <<".", HexDigits[((h \div 10) % 10) + 1], HexDigits[(h % 10) + 1]>>

\* e is "rgba(r,g,b,a)" for the channels of colour c, a being its alpha
\* rounded to hundredths.
IsRgbaOf(e, c) ==
  \E r \in ChannelInts(IF "r" \in c.keys THEN c.r ELSE 0),
     g \in ChannelInts(IF "g" \in c.keys THEN c.g ELSE 0),
     b \in ChannelInts(IF "b" \in c.keys THEN c.b ELSE 0),
     h \in {x \in ((c.a \div 10) - 1)..((c.a \div 10) + 1) :
              x \in 0..100 /\ 10 * x - c.a <= 5 /\ c.a - 10 * x <= 5} :
    e = <<"r", "g", "b", "a", "(">> \o Dec(r) \o <<",">> \o Dec(g) \o <<",">> \o Dec(b)
          \o <<",">> \o TwoDecimals(h) \o <<")">>

OpaqueFills(doc) == {f \in ColoredFills(doc) : "a" \notin f.color.keys \/ f.color.a = 1000}

\* C19: in a returned colour list every coloured fill whose alpha is 1 or
\* absent appears as "#rrggbb" in lowercase hexadecimal and every other one
\* as "rgba(r,g,b,a)" with its alpha at two decimals, r, g and b being its
\* channels as integers of 0..255; and every element of the list is the
\* form of one of the fills.
C19_ColorFormat ==
  colors # <<>> =>
    /\ \A f \in OpaqueFills(document) :
         \E e \in Range(colors[1]) : IsHexOf(e, f.color)
    /\ \A f \in ColoredFills(document) \ OpaqueFills(document) :
         \E e \in Range(colors[1]) : IsRgbaOf(e, f.color)
    /\ \A e \in Range(colors[1]) :
         \/ \E f \in OpaqueFills(document) : IsHexOf(e, f.color)
         \/ \E f \in ColoredFills(document) \ OpaqueFills(document) : IsRgbaOf(e, f.color)

C19_Witness ==
  /\ colors # <<>>
  /\ <<"#", "f", "f", "0", "0", "0", "0">> \in Range(colors[1])
  /\ <<"#", "0", "0", "0", "0", "f", "f">> \in Range(colors[1])
  /\ <<"r", "g", "b", "a", "(", "0", ",", "5", "1", ",", "2", "5", "5", ",",
       "1", ".", "0", "0", ")">> \in Range(colors[1])

\* The nodes of the tree that carry a font family.
FontNodes(doc) ==
  {n \in AllNodes(doc) :
     "style" \in n.keys /\ "fontFamily" \in n.style.keys /\ n.style.fontFamily # <<>>}

\* The (family, size, weight) of a node, 16 and 400 standing for a size
\* and a weight the style does not hold.
Triple(n) ==
  <<n.style.fontFamily,
    IF "fontSize" \in n.style.keys THEN n.style.fontSize ELSE 16,
    IF "fontWeight" \in n.style.keys THEN n.style.fontWeight ELSE 400>>

TripleOf(entry) == <<entry.family, entry.size, entry.weight>>

\* C20: the triples of a returned font list are exactly the triples of the
\* nodes that carry a font family, and the list ascends strictly by
\* (family, size, weight), so it is sorted and holds each triple once.
C20_FontList ==
  fonts # <<>> =>
    /\ {TripleOf(fonts[1][i]) : i \in 1..Len(fonts[1])} =
         {Triple(n) : n \in FontNodes(document)}
    /\ \A i, j \in 1..Len(fonts[1]) :
         i < j => TupleLess(TripleOf(fonts[1][i]), TripleOf(fonts[1][j]))
    /\ Len(fonts[1]) = Cardinality({Triple(n) : n \in FontNodes(document)})

C20_Witness ==
  /\ fonts # <<>>
  /\ Cardinality(FontNodes(document)) = 3
  /\ fonts[1] = <<[family |-> Inter, size |-> 12, weight |-> 400],
                  [family |-> Inter, size |-> 16, weight |-> 400]>>
  /\ \E n \in FontNodes(document) : "fontSize" \notin n.style.keys

\* The places of the nodes of a tree: the indices of the children to
\* descend through from the root.
RECURSIVE Paths(_)
Paths(node) ==
  {<<>>} \cup
    (IF "children" \in node.keys
       THEN UNION {{<<i>> \o p : p \in Paths(node.children[i])} :
                     i \in 1..Len(node.children)}
       ELSE {})

RECURSIVE NodeAt(_, _)
NodeAt(node, path) ==
  IF path = <<>> THEN node ELSE NodeAt(node.children[Head(path)], Tail(path))

\* p comes before q in pre-order: p is an ancestor of q, or p branches off
\* to an earlier sibling.
RECURSIVE PathLess(_, _)
PathLess(p, q) ==
  IF q = <<>> THEN FALSE
  ELSE IF p = <<>> THEN TRUE
  ELSE IF Head(p) = Head(q) THEN PathLess(Tail(p), Tail(q))
  ELSE Head(p) < Head(q)

\* The places of the nodes whose type is one of the four component types.
ComponentPaths(doc) ==
  {p \in Paths(doc) :
     "type" \in NodeAt(doc, p).keys /\ NodeAt(doc, p).type \in ComponentTypes}

ChildCount(n) == IF "children" \in n.keys THEN Len(n.children) ELSE 0

\* C21: a returned component list holds one record per node of a component
\* type and no other; the k-th record is that of the k-th such node in
\* pre-order: its type and name are the node's, its depth is the number of
\* the node's ancestors and its children_count the number of the node's
\* children.
C21_ComponentList ==
  components # <<>> =>
    /\ Len(components[1]) = Cardinality(ComponentPaths(document))
    /\ \A p \in ComponentPaths(document) :
         LET k == 1 + Cardinality({q \in ComponentPaths(document) : PathLess(q, p)})
             n == NodeAt(document, p)
             rec == components[1][k]
         IN  /\ rec.type = n.type
             /\ rec.name = (IF "name" \in n.keys THEN n.name ELSE "")
             /\ rec.depth = Len(p)
             /\ rec.children_count = ChildCount(n)

C21_Witness ==
  /\ components # <<>>
  /\ Cardinality(Paths(document)) = 3
  /\ "type" \in document.keys
  /\ document.type = "FRAME"
  /\ NodeAt(document, <<1>>).type = "TEXT"
  /\ Len(components[1]) = 2
  /\ components[1][1].depth = 0
  /\ components[1][1].children_count = 1
  /\ components[1][2].depth = 2
  /\ components[1][2].type = "INSTANCE"

NodeFields == {"fills", "style", "children", "type", "name", "absoluteBoundingBox"}

\* The tree with every field a node lacks set to the empty value of its
\* kind: no fills, no style entries, no children, an empty type and name,
\* a bounding box without entries.
RECURSIVE Filled(_)
Filled(node) ==
  [keys |-> NodeFields,
   fills |-> IF "fills" \in node.keys THEN node.fills ELSE <<>>,
   style |-> IF "style" \in node.keys THEN node.style ELSE EmptyStyle,
   type |-> IF "type" \in node.keys THEN node.type ELSE "",
   name |-> IF "name" \in node.keys THEN node.name ELSE "",
   absoluteBoundingBox |->
     IF "absoluteBoundingBox" \in node.keys THEN node.absoluteBoundingBox ELSE EmptyBBox,
   children |->
     IF "children" \in node.keys
       THEN [i \in 1..Len(node.children) |-> Filled(node.children[i])]
       ELSE <<>>]

LacksField(doc) == \E n \in AllNodes(doc) : n.keys # NodeFields

\* C22: on a document with nodes that lack fields each of the three
\* extractions can be made and returns; what it returns is what it returns
\* for the document with the lacking fields set to empty; and a document
\* whose nodes hold nothing but children gives three empty lists.
C22_AbsentFieldsTolerated ==
  /\ pc = "extract_colors" => ENABLED ExtractColors
  /\ pc = "extract_fonts" => ENABLED ExtractFonts
  /\ pc = "extract_components" => ENABLED ExtractComponents
  /\ colors # <<>> => Range(colors[1]) = CollectColors(Filled(document))
  /\ fonts # <<>> =>
       {TripleOf(fonts[1][i]) : i \in 1..Len(fonts[1])} = CollectFonts(Filled(document))
  /\ components # <<>> => components[1] = _extract_components(Filled(document), 0)
  /\ (\A n \in AllNodes(document) : n.keys \subseteq {"children"}) =>
       /\ colors \in {<<>>, <<<<>>>>}
       /\ fonts \in {<<>>, <<<<>>>>}
       /\ components \in {<<>>, <<<<>>>>}

C22_Witness ==
  /\ colors # <<>>
  /\ fonts # <<>>
  /\ components # <<>>
  /\ Cardinality(AllNodes(document)) = 3
  /\ \E n \in AllNodes(document) : n.keys = {}
  /\ \E n \in AllNodes(document) :
       /\ "type" \in n.keys
       /\ "name" \notin n.keys
       /\ "absoluteBoundingBox" \notin n.keys
  /\ \E i \in 1..Len(components[1]) :
       components[1][i].width = <<>> /\ components[1][i].name = ""

\* The segments of the path of a URL: the runs of tokens between "/".
Segments(u) == SplitOn(urlparse(u).path, "/")

IsFileMarker(segs, i) ==
  /\ i < Len(segs)
  /\ segs[i] \in {<<"file">>, <<"design">>}
  /\ segs[i + 1] # <<>>

\* The index of the first file or design segment that a segment follows.
FileMarker(segs) ==
  IF \E i \in 1..Len(segs) : IsFileMarker(segs, i)
    THEN CHOOSE i \in 1..Len(segs) :
           IsFileMarker(segs, i) /\ \A j \in 1..(i - 1) : ~IsFileMarker(segs, j)
    ELSE 0

\* The pairs name=value of the query of a URL with the name node-id and a
\* value that is not blank, in order.
NodeIdPairs(u) ==
  LET pairs == SplitOn(urlparse(u).query, "&")
  IN  SelectSeq(pairs, LAMBDA pair :
        Len(pair) > 2 /\ pair[1] = "node-id" /\ pair[2] = "=")

ParsedAsSegment(u, r) ==
  LET segs == Segments(u)
      k == FileMarker(segs)
  IN  /\ r.ok <=> k # 0
      /\ r.ok /\ k # 0 =>
           /\ r.file_key = Join(segs[k + 1])
           /\ r.node_id =
                IF NodeIdPairs(u) = <<>> THEN None
                ELSE UnquoteAll(SubSeq(NodeIdPairs(u)[1], 3, Len(NodeIdPairs(u)[1])))

\* C23: parse_url returns the path segment that follows /file/ or /design/
\* and the node-id query parameter (None without one), and raises the
\* invalid-URL error exactly when the path has no such segment.
C23_ParseUrl == urlResult # <<>> => ParsedAsSegment(url, urlResult[1])

\* The same holds of every URL in which the segments that follow a file or
\* design segment are alphanumeric.
AlnumFileSegments(u) ==
  LET segs == Segments(u)
  IN  \A i \in 1..(Len(segs) - 1) :
        segs[i] \in {<<"file">>, <<"design">>} =>
          \A j \in 1..Len(segs[i + 1]) : segs[i + 1][j] \in AlnumTokens

ParseUrlOfAlnumSegments ==
  urlResult # <<>> /\ AlnumFileSegments(url) => ParsedAsSegment(url, urlResult[1])

\* What the stage operation before an agent's returned and what the
\* Designer returned.
Output(s) == returned[s][1]

\* C24: an agent returns the value parsed from the model's response and run
\* stores that value in the result as it is; the Architect is called with
\* the Designer's output, the Coder with the Architect's and the
\* Designer's, the Reviewer with the Coder's and the Designer's (and the
\* Designer with what the fetch returned).
C24_DataThreaded ==
  /\ \A s \in OpStages : returned[s] # <<>> => result[Artifact(s)] = Output(s)
  /\ (pc = "notify_post" /\ result.current_stage \in AgentStages) =>
       /\ raw # <<>>
       /\ returned[result.current_stage] = <<_extract_json(raw[1]).val>>
  /\ inputs["designer"] # <<>> => inputs["designer"] = <<Output("fetch")>>
  /\ inputs["architect"] # <<>> => inputs["architect"] = <<Output("designer")>>
  /\ inputs["coder"] # <<>> =>
       inputs["coder"] = <<Output("architect"), Output("designer")>>
  /\ inputs["reviewer"] # <<>> =>
       inputs["reviewer"] = <<Output("coder"), Output("designer")>>

C24_Witness ==
  /\ pc = "returned"
  /\ result.error = None
  /\ returned["reviewer"] # <<>>
  /\ inputs["reviewer"] = <<result.generated_code, result.design_analysis>>
  /\ result.design_analysis # result.architecture
  /\ result.architecture # result.generated_code
  /\ result.generated_code # result.design_analysis

Budget(s) == max_tokens[s][1]

AllBudgetsKnown == \A s \in AgentStages : max_tokens[s] # <<>>

CoderLargest ==
  \A s \in AgentStages \ {"coder"} : Budget(s) < Budget("coder")

FetchRequestFailed ==
  /\ opLog # <<>>
  /\ Last(opLog) = <<"raise", "fetch">>
  /\ exc.kind = "HTTPError"

\* C26: a failure of a design-API request reaches run as an error of the
\* fetch stage only after the client has sent the request again at least
\* once (the weakest reading of a retry budget).
C26_FetchRetried == FetchRequestFailed => httpRequests > 1

\* What the client does: every failure of a request is raised to run after
\* that one request.
FetchNeverRetried == httpRequests <= 1 /\ (FetchRequestFailed => httpRequests = 1)

\* The items of the list a prompt holds between two of its headings.
ItemsBetween(prompt, from, to) ==
  LET a == IndexOf(prompt, {from})
      b == IndexOf(prompt, {to})
  IN  SelectSeq(SubSeq(prompt, a + 1, b - 1),
                LAMBDA t : t \notin {"[", ",", "]"})

EmbeddedColors(prompt) == ItemsBetween(prompt, "COLORS", "FONTS")

EmbeddedFonts(prompt) == ItemsBetween(prompt, "FONTS", "COMPONENTS top")

\* After the heading of the components comes their count, then the list.
EmbeddedCount(prompt) == prompt[IndexOf(prompt, {"COMPONENTS top"}) + 1]

EmbeddedComponents(prompt) ==
  LET a == IndexOf(prompt, {"COMPONENTS top"}) + 1
  IN  SelectSeq(SubSeq(prompt, a + 1, Len(prompt) - 1),
                LAMBDA t : t \notin {"[", ",", "]"})

\* C28: the Designer's user message embeds the first min(n, 30) entries of
\* a component inventory of n entries, in their order, and says that
\* number; it embeds every colour and every font.
C28_TopComponents ==
  user_message # <<>> =>
    LET prompt == user_message[1]
        comps == get(figma_data, "components", <<>>)
        n == Len(comps)
        m == IF n < 30 THEN n ELSE 30
        cs == get(figma_data, "colors", <<>>)
        fs == get(figma_data, "fonts", <<>>)
    IN  /\ EmbeddedComponents(prompt) = [i \in 1..m |-> DumpComponent(comps[i])]
        /\ EmbeddedCount(prompt) = ToString(m)
        /\ EmbeddedColors(prompt) = [i \in 1..Len(cs) |-> DumpColor(cs[i])]
        /\ EmbeddedFonts(prompt) = [i \in 1..Len(fs) |-> DumpFont(fs[i])]

C28_Witness ==
  /\ user_message # <<>>
  /\ Len(figma_data.components) = 32
  /\ figma_data.components[1] = 32
  /\ Len(figma_data.colors) = 2
  /\ Len(figma_data.fonts) = 2
  /\ Len(EmbeddedComponents(user_message[1])) = 30
  /\ EmbeddedComponents(user_message[1])[30] = DumpComponent(3)

\* The (stage, progress) pairs of a run that meets no failure, progress in
\* tenths.
FixedSequence ==
  << <<"fetch", 0>>, <<"fetch", 2>>, <<"designer", 2>>, <<"designer", 4>>,
     <<"architect", 4>>, <<"architect", 6>>, <<"coder", 6>>, <<"coder", 8>>,
     <<"reviewer", 8>>, <<"done", 10>> >>

StageProgress(q) == [i \in 1..Len(q) |-> <<q[i][1], q[i][3]>>]

IsPrefix(p, q) == Len(p) <= Len(q) /\ p = SubSeq(q, 1, Len(p))

\* The notifications before the error notification, if there is one.
BeforeError(q) ==
  IF q # <<>> /\ Last(q) = <<"error", -10>> THEN SubSeq(q, 1, Len(q) - 1) ELSE q

\* C29: while the callback has not raised, the (stage, progress) pairs
\* notified are a prefix of the fixed sequence, followed by (error, -1) if
\* and only if the run has recorded an error and notified it; the progress
\* of the notifications other than the error never decreases; and the
\* prefix of a failed run has odd length.
C29_NotificationPrefix ==
  ~callbackRaised =>
    LET pairs == StageProgress(notifications)
        prefix == BeforeError(pairs)
    IN  /\ IsPrefix(prefix, FixedSequence)
        /\ \A i, j \in 1..Len(prefix) : i <= j => prefix[i][2] <= prefix[j][2]
        /\ prefix # pairs => result.error # None /\ Ended
        /\ Ended /\ result.error # None => prefix # pairs
        /\ result.error # None => Len(prefix) % 2 = 1
        /\ pc = "returned" /\ result.error = None => pairs = FixedSequence

C29_Witness ==
  /\ ~callbackRaised
  /\ pc = "returned"
  /\ result.current_stage = "coder"
  /\ Len(notifications) = 8
  /\ StageProgress(notifications)[7] = <<"coder", 6>>
  /\ StageProgress(notifications)[8] = <<"error", -10>>

\* C30: when run returns, current_stage is "done" exactly when error is
\* None; and a result whose success is true comes from a run in which each
\* of the five stage operations was called once, returned once and never
\* raised.
C30_DoneIffNoError ==
  pc = "returned" =>
    /\ result.current_stage = "done" <=> result.error = None
    /\ success(result) =>
         \A s \in OpStages :
           /\ Cardinality({i \in 1..Len(opLog) : opLog[i] = <<"call", s>>}) = 1
           /\ Cardinality({i \in 1..Len(opLog) : opLog[i] = <<"return", s>>}) = 1
           /\ ~\E i \in 1..Len(opLog) : opLog[i] = <<"raise", s>>

C30_Witness ==
  /\ pc = "returned"
  /\ success(result)
  /\ result.current_stage = "done"
  /\ Len(opLog) = 10

\* The other side of the equivalence is reached as well.
C30_FailedReturn ==
  /\ pc = "returned"
  /\ result.error # None
  /\ result.current_stage = "reviewer"
  /\ Returned("reviewer")

\* The frame of the run of caller i.
RunFrame(i) == IF active = i THEN Frame ELSE parked[1]

Callers == IF parked = <<>> THEN {active} ELSE {1, 2}

Count(log, kind) == Cardinality({i \in 1..Len(log) : log[i][1] = kind})

\* What a run produces alone: its result holds what its own stage
\* operations returned and nothing else, the design data is that of its own
\* URL, each agent is called with its own earlier outputs, the error names
\* its own exception, and its notifications are those of its own progress
\* through the fixed sequence.
RunAlone(f) ==
  /\ \A s \in OpStages :
       f.result[Artifact(s)] =
         (IF f.returned[s] = <<>> THEN EmptyDict ELSE f.returned[s][1])
  /\ f.returned["fetch"] # <<>> =>
       \E name \in DocNames :
         f.returned["fetch"][1] =
           design_data(parse_url(f.figma_url).file_key,
                       parse_url(f.figma_url).node_id, name)
  /\ \A s \in AgentStages : f.inputs[s] # <<>> => f.inputs[s] = AgentArgs(s, f.result)
  /\ f.pc = "returned" /\ f.result.error # None =>
       f.result.error = ErrorText(f.result.current_stage, f.exc)
  /\ f.result.error = None <=> f.pc \notin {"returned", "propagated"} \/ f.exc = NoExc
  /\ ~f.callbackRaised =>
       LET prefix == BeforeError(StageProgress(f.notifications))
       IN  /\ IsPrefix(prefix, FixedSequence)
           /\ Len(prefix) = Count(f.opLog, "call") + Count(f.opLog, "return")
                              + (IF f.pc = "op" THEN 1 ELSE 0)
                              - (IF f.pc = "notify_post" THEN 1 ELSE 0)

\* A run by itself produces what RunAlone says.
SingleRunAlone == parked = <<>> => RunAlone(Frame)

\* C27: with two runs of one Pipeline interleaved where they block, the
\* frame of a run changes only in the steps that run takes, and in every
\* state the result and the notifications of each run are what that run
\* produces alone.
C27_RunsIndependent ==
  /\ [](\A i \in Callers : RunAlone(RunFrame(i)))
  /\ [][parked # <<>> =>
          \A i \in {1, 2} : (active = i /\ active' = i) \/ RunFrame(i)' = RunFrame(i)]_vars

C27_Witness ==
  /\ parked # <<>>
  /\ active = 1
  /\ pc = "returned"
  /\ success(result)
  /\ Len(notifications) = 10
  /\ parked[1].pc = "returned"
  /\ parked[1].figma_url # figma_url
  /\ parked[1].result.current_stage = "coder"
  /\ parked[1].result.error = "[coder] e1"
  /\ Len(parked[1].notifications) = 8

\* The calls of generate made so far: generate_json is entered once for
\* each agent whose prompt was built.
GenerateCalls == Cardinality({s \in AgentStages : max_tokens[s] # <<>>})

ResourceBounds ==
  /\ httpRequests <= 1
  /\ GenerateCalls <= 4
  /\ totalCalls <= 12
  /\ totalCalls <= 3 * GenerateCalls
  /\ totalWaits <= 8
  /\ apiCalls <= 3

\* C31: every run ends (it returns, or an exception leaves it), and it has
\* made at most one request to the design API, at most 4 calls of generate,
\* at most 12 calls of messages.create, 3 for each stage, and at most 8
\* sleeps.
C31_TerminatesWithinBounds == []ResourceBounds /\ <>Ended

\* The bounds are met: twelve calls and eight sleeps in a run that returns.
C31_Witness ==
  /\ pc = "returned"
  /\ httpRequests = 1
  /\ GenerateCalls = 4
  /\ totalCalls = 12
  /\ totalWaits = 8
  /\ result.error = None

RetriedKinds == {"RateLimitError"} \cup GenericKinds

\* The failures of the current generate call are of both kinds.
MixedFailures ==
  /\ \E i \in 1..Len(attemptLog) : attemptLog[i].kind = "RateLimitError"
  /\ \E i \in 1..Len(attemptLog) : attemptLog[i].kind \in GenericKinds

\* C32: in one generate call, whatever the mix of rate-limit and generic
\* API failures, messages.create is called at most 3 times, each call being
\* a logged failure or the one success; the sleep after a rate-limit
\* failure at attempt i (counted from 0) is base * 2^i and after a generic
\* failure base, whatever the kinds of the failures before it; and after
\* the successful attempt, whose text is returned, the call makes no
\* further attempt.
C32_SharedRetryBudget ==
  /\ [](/\ apiCalls <= _MAX_RETRIES
        /\ Len(attemptLog) <= _MAX_RETRIES
        /\ pc = "api" => apiCalls = Len(attemptLog) /\ attempt = apiCalls /\ raw = <<>>
        /\ raw # <<>> /\ pc = "notify_post" => apiCalls = Len(attemptLog) + 1
        /\ \A i \in 1..Len(waits) :
             /\ attemptLog[i].kind \in RetriedKinds
             /\ waits[i] = (IF attemptLog[i].kind = "RateLimitError"
                              THEN _BACKOFF_BASE * (2 ^ (i - 1))
                              ELSE _BACKOFF_BASE))
  /\ [][raw' # <<>> /\ raw = <<>> =>
          /\ apiCalls' = apiCalls + 1
          /\ attemptLog' = attemptLog
          /\ pc' # "api"
          /\ raw'[1] \in Texts]_vars
  /\ [][raw # <<>> => apiCalls' = apiCalls \/ (apiCalls' = 0 /\ raw' = <<>>)]_vars

C32_Witness ==
  /\ attemptLog = <<Exc("APIError", "e1"), Exc("RateLimitError", "e2")>>
  /\ waits = <<_BACKOFF_BASE, 2 * _BACKOFF_BASE>>
  /\ apiCalls = 3
  /\ raw # <<>>
  /\ pc = "notify_post"
  /\ MixedFailures

\* An exception raised by on_progress inside the try block is recorded as
\* an error of the stage that is current at that moment: the notification
\* that raised is the one before the error notification, the stage named
\* in the error is the one current when it was sent, and a failure on the
\* final (done, 1.0) notification leaves the review in place with an error
\* of the reviewer stage.
CallbackErrorRecorded ==
  (pc = "returned" /\ callbackRaised) =>
    /\ exc.kind = "CallbackError"
    /\ result.error = ErrorText(result.current_stage, exc)
    /\ Len(notifications) >= 2
    /\ IsError(Last(notifications))
    /\ LET n == notifications[Len(notifications) - 1]
       IN  /\ n[1] # "done" => result.current_stage = n[1]
           /\ IsDone(n) =>
                /\ result.current_stage = "reviewer"
                /\ Returned("reviewer")
                /\ returned["reviewer"] = <<result.review>>
                /\ result.error = ErrorText("reviewer", exc)

\* C33: run returns a PipelineResult and never lets an exception reach its
\* caller, whatever the fetch, the agents and on_progress do; an exception
\* raised by on_progress on a stage-boundary notification is recorded as an
\* error of the stage current at that moment.
C33_NeverPropagates ==
  /\ pc # "propagated"
  /\ CallbackErrorRecorded

\* on_progress fails on the final notification and run returns the result
\* with the reviewer's error.
CallbackFailsOnDone ==
  /\ pc = "returned"
  /\ callbackRaised
  /\ IsDone(notifications[Len(notifications) - 1])
  /\ Truthy(result.review)

\* What happens after agent stage s returned, whatever it returned: the
\* artifact holds the value; unless s is the reviewer, a run that has ended
\* has called the next stage with that value as its first argument; after
\* the reviewer, a run that has returned is done without error and its last
\* notification is the done one.
AdvancedAfter(s) ==
  /\ returned[s] = <<result[Artifact(s)]>>
  /\ s # "reviewer" /\ Ended =>
       /\ Called(NextStage(s))
       /\ inputs[NextStage(s)][1] = returned[s][1]
  /\ s = "reviewer" /\ pc = "returned" =>
       /\ result.current_stage = "done"
       /\ result.error = None
       /\ IsDone(Last(notifications))
       /\ success(result) = Truthy(returned[s][1])

AdvancementIgnoresContent ==
  \A s \in AgentStages : Returned(s) => AdvancedAfter(s)

InvalidLocatorSequence == << <<"fetch", 0>>, <<"error", -10>> >>

\* C35: when parse_url rejects the URL, the run sends no request to the
\* design API and calls no agent, hence never the model; at its end the
\* notifications are exactly (fetch, 0.0) and (error, -1); and the result
\* it returns has an error that begins with [fetch], current_stage fetch
\* and five empty artifacts.
C35_InvalidLocator ==
  ~parse_url(figma_url).ok =>
    /\ httpRequests = 0
    /\ pc \notin {"http", "api"}
    /\ \A s \in AgentStages : ~Called(s) /\ max_tokens[s] = <<>>
    /\ apiCalls = 0 /\ attemptLog = <<>>
    /\ IsPrefix(StageProgress(notifications), InvalidLocatorSequence)
    /\ Ended => StageProgress(notifications) = InvalidLocatorSequence
    /\ pc = "returned" =>
         /\ result.error = ErrorText("fetch", exc)
         /\ result.current_stage = "fetch"
         /\ \A f \in ArtifactFields : result[f] = EmptyDict

C35_Witness ==
  /\ ~parse_url(figma_url).ok
  /\ pc = "returned"
  /\ exc.kind = "ValueError"
  /\ opLog = << <<"call", "fetch">>, <<"raise", "fetch">> >>
  /\ result.error = ErrorText("fetch", exc)
  /\ StageProgress(notifications) = InvalidLocatorSequence

AgentNames(q) == [i \in 1..Len(q) |-> q[i].agent_name]

ExitedZero(o) == o.kind = "exit" /\ o.returncode = 0

\* C36: the agents are started in the order designer, architect, coder,
\* reviewer, each only after the one before it has exited with status 0;
\* when an agent exits with another status or runs into the timeout,
\* run_agent raises, no later agent is started, and main exits with status
\* 1 without calling build_zip or save_to_exports.
C36_AgentsInOrder ==
  /\ IsPrefix(AgentNames(started), AGENTS)
  /\ Len(started) = Len(exits) + (IF pc = "subprocess" THEN 1 ELSE 0)
  /\ \A i \in 2..Len(started) : ExitedZero(exits[i - 1])
  /\ \A i \in 1..Len(exits) :
       ~ExitedZero(exits[i]) =>
         /\ i = Len(started)
         /\ raisedExc # NoExc
         /\ raisedExc.kind =
              (IF exits[i].kind = "timeout" THEN "TimeoutExpired" ELSE "RuntimeError")
         /\ pc = "exited"
         /\ exit_status = 1
         /\ launcherCalls = <<>>
         /\ zip_data = None
         /\ exports = <<>>

\* The first two agents exit with 0, the coder fails, and the files written
\* so far stay unarchived.
C36_Witness ==
  /\ pc = "exited"
  /\ exit_status = 1
  /\ AgentNames(started) = <<"designer", "architect", "coder">>
  /\ ExitedZero(exits[1]) /\ ExitedZero(exits[2])
  /\ exits[3] \in {TimedOut, Exit(2, "out", "boom")}
  /\ project_files # {}
  /\ launcherCalls = <<>>
====
